---- MODULE Spec2Model ----
(***************************************************************************)
(* The benchmark drivers of nectar's command line interface (cli.go).      *)
(*                                                                         *)
(*   SpecFixed   benchDelete, benchGet, benchHead, benchPost, benchPut:    *)
(*               one producer loop, one task channel, one worker pool.     *)
(*   SpecMixed   benchMixed: five per-kind worker pools, five producers,   *)
(*               the reporter and the time-span timer, coupled by the      *)
(*               atomic counters deletes/gets/heads/posts/puts and by      *)
(*               doneChan.                                                 *)
(*                                                                         *)
(* The GET, HEAD and POST pools of benchMixed are three copies of one text *)
(* (cli.go:1074-1233, 1360-1449) that differ in the StorageClient verb and *)
(* in the channel and counter they name; they read deletes, puts and       *)
(* doneChan and write only their own counter.  The model follows the       *)
(* DELETE pool, the PUT pool and the GET pool; what it shows of the GET    *)
(* pool is what the text shows of the HEAD and the POST pool.              *)
(*                                                                         *)
(* Goroutines of one pool run the same closure and carry no identity, so a *)
(* pool is the bag of its goroutines' states.  A StorageClient call is a   *)
(* step that starts it (the receive from the task channel) and a step in   *)
(* which it returns with a status the environment chooses.                 *)
(***************************************************************************)
EXTENDS Integers, Sequences, FiniteSets, Bags, TLC

\* ---------------------------------------------------------------- bounds
MaxConcurrency == 2     \* -C is drawn from 1..MaxConcurrency
MaxPuts == 4            \* the PUT producer of benchMixed stops at index
                        \* MaxPuts + 1 - concurrency (see PutLimit)
MaxReads == 1           \* sends allowed to each of the GET/HEAD/POST producers
MaxTicks == 1           \* rows a ticker may add to the -csvot file in one run
MaxFailing == 1         \* benchMixed: workers that may be between a non-2xx
                        \* response and cliFatalf at one time
MaxCount == 3           \* -count is drawn from 1..MaxCount
MaxIterations == 2      \* -iterations is drawn from 1..MaxIterations
MaxFailures == 2        \* fixed-count drivers: non-2xx responses in one run
MaxWeight == 2          \* ratio benchMixed: each weight of -ratios is drawn
                        \* from 0..MaxWeight
MaxX == 14              \* ratio benchMixed: the request loop stops choosing
                        \* at x = MaxX
MaxContainers == 2      \* -containers is drawn from 0..MaxContainers
MaxSeconds == 2         \* fixed-count: a run takes up to MaxSeconds seconds
MaxAccount == 4         \* download: containers in the account's listing
MaxEntries == 2         \* download: entries in a container's listing
MaxSize == 2            \* benchPut: -size is drawn from -1..MaxSize and
                        \* -maxsize from -1..MaxSize + 1

\* The DELETE producer of benchMixed stays this far behind the completed
\* PUTs.  cli.go:1342 has 10000; the model keeps the comparison and scales
\* the distance so that DELETEs occur within MaxPuts.
DeleteMargin == 2
\* The same distance in the runs whose margin exceeds 4 * concurrency, as
\* 10000 does at every -C below 2500.
WideMargin == 5

\* The ratio-interleaved benchMixed sends no DELETE before this many PUTs
\* have completed, and no GET, HEAD or POST while rang is below RangFloor.
\* part_000:1875 and part_000:1885 have 1000; the model keeps the
\* comparisons and scales the numbers so that they are passed within MaxX.
PutFloor == 2
RangFloor == 2

\* ----------------------------------------------------------------- kinds
Kinds == {"DELETE", "GET", "PUT"}

\* The fixed-count drivers, and those of them that take -iterations.
Drivers == {"benchDelete", "benchGet", "benchHead", "benchPost", "benchPut"}
\* benchGet of package main (unnamed/part_000), the command line tool's own
\* copy of the driver.
MainGet == "main.benchGet"
Iterating == {"benchGet", "benchHead", MainGet}

VARIABLES
    concurrency,      \* -C after normalisation (>= 1)
    continueOnError,  \* -continue-on-error
    csv,              \* -csv given: csvw != nil
    csvot,            \* -csvot given: csvotw != nil
    size,             \* benchPut: -size after normalisation
    maxsize,          \* benchPut: -maxsize after normalisation
    containers,       \* -containers after normalisation (>= 1)
    exited,           \* os.Exit(1) has been called (cliFatalf)
    csvlk,            \* csvlk is held
    csvw,             \* bag of the rows written to the -csv file
    csvotw,           \* sequence of the rows written to the -csvot file
    bench,            \* fixed-count: the driver that runs
    count,            \* fixed-count: -count after normalisation (>= 1)
    iterations,       \* fixed-count: -iterations after normalisation (>= 1)
    benchChan,        \* fixed-count: the buffered task channel
    closed,           \* fixed-count: close(benchChan) has been called
    workers,          \* fixed-count: the bag of worker goroutine states
    loopI,            \* fixed-count: the producer loop's i
    iteration,        \* fixed-count: the producer loop's iteration
    lastSoFar,        \* fixed-count: lastSoFar
    calls,            \* fixed-count: per object index, StorageClient calls started
    completed,        \* fixed-count: StorageClient calls that have returned
    failures,         \* fixed-count: non-2xx responses received
    doneChan,         \* benchMixed: doneChan is closed
    chans,            \* benchMixed: deleteChan, getChan, headChan, postChan, putChan
    counters,         \* benchMixed: deletes, gets, heads, posts, puts
    lastCounters,     \* benchMixed: lastDeletes, ..., lastPuts
    pools,            \* benchMixed: per kind, the bag of worker goroutine states
    producers,        \* benchMixed: per kind, the producer goroutine's state
    sent,             \* benchMixed: per kind, number of tasks sent so far
    reporter,         \* benchMixed: the reporter goroutine's position
    ratios,           \* ratio benchMixed: the five weights of -ratios
    opOrder,          \* ratio benchMixed: opOrder
    loopX,            \* ratio benchMixed: the request loop's x
    sentDeletes,      \* ratio benchMixed: sentDeletes
    sentPuts,         \* ratio benchMixed: sentPuts
    requestLoop,      \* ratio benchMixed: the request loop's position and
                      \* the op and i it has chosen
    elapsed,          \* ratio benchMixed: the time span has elapsed
    provX,            \* provisioning: the loop's x, the PutContainer calls
                      \* that have returned
    provCall,         \* provisioning: a PutContainer call is in progress
    provFailures,     \* provisioning: non-2xx responses to PutContainer
    margin,           \* benchMixed: the margin of hi := puts - 10000, at the
                      \* scale of the run
    runElapsed,       \* fixed-count: elapsed := stop.Sub(start), in
                      \* nanoseconds, once wg.Wait() has returned
    downloadChan,     \* download: downloadChan, the queue of tasks
    downloadClosed,   \* download: close(downloadChan) has been called
    downloadWorkers,  \* download: per worker goroutine, its position, the
                      \* task it holds and the entries it has left to queue
    containerWG,      \* download: containerWG's counter
    dirExists,        \* download: the keys of the dirExists map
    dirExistsLock,    \* download: the worker holding dirExistsLock, or 0
    mkdirs,           \* download: per directory, the os.MkdirAll calls made
    producer,         \* download: what download() was asked for and the
                      \* container tasks it has left to queue
    enqueued,         \* download: object tasks sent into downloadChan
    received,         \* download: object tasks received from downloadChan
    cleanup,          \* benchDelete: the x of the loop over the containers
                      \* after the run, and whether c.DeleteContainer is
                      \* in progress
    main              \* position of the driver function itself

fixedVars == <<bench, count, iterations, benchChan, closed, workers, loopI,
               iteration, lastSoFar, calls, completed, failures>>

mixedVars == <<doneChan, chans, counters, lastCounters, pools, producers, sent,
               reporter>>

ratioVars == <<ratios, opOrder, loopX, sentDeletes, sentPuts, requestLoop,
               elapsed>>

provVars == <<provX, provCall, provFailures>>

downloadVars == <<downloadChan, downloadClosed, downloadWorkers, containerWG,
                  dirExists, dirExistsLock, mkdirs, producer, enqueued,
                  received>>

vars == <<concurrency, continueOnError, csv, csvot, size, maxsize, containers, margin, exited,
          csvlk, csvw, csvotw, main, fixedVars, mixedVars, ratioVars, provVars,
          downloadVars, cleanup,
          runElapsed>>

config == <<concurrency, continueOnError, csv, csvot, size, maxsize,
            containers, margin>>

\* ------------------------------------------------------- bag conveniences
One(x) == SetToBag({x})
Replace(bag, old, new) == (bag (-) One(old)) (+) One(new)
\* One goroutine too many: for x := 0; x <= concurrency; x++.
CopiesOnceMore(n, x) == [e \in {x} |-> n + 1]

Copies(n, x) == [e \in {x} |-> n]

Max(a, b) == IF a > b THEN a ELSE b

\* A worker goroutine that waits in its select, holding no task.
Idle == [pc |-> "select", i |-> 0, ok |-> TRUE]
Gone == [pc |-> "exited", i |-> 0, ok |-> TRUE]
\* A worker goroutine between a non-2xx response and cliFatalf.
Fatal == [pc |-> "fatal", i |-> 0, ok |-> FALSE]

\* The variables of the ratio-interleaved benchMixed in a run of another
\* driver.
RatioUnused ==
    /\ ratios = <<>>
    /\ opOrder = <<>>
    /\ loopX = 0
    /\ sentDeletes = 0
    /\ sentPuts = 0
    /\ requestLoop = [pc |-> "none", op |-> 0, i |-> 0]
    /\ elapsed = FALSE

\* The variables of the provisioning step in a run that is followed from
\* the start of the worker goroutines on.
ProvUnused ==
    /\ provX = 0
    /\ provCall = FALSE
    /\ provFailures = 0

\* No container has been deleted and no c.DeleteContainer call is under way.
NoCleanup == [x |-> 0, call |-> FALSE]

\* download is not the command that runs.
DownloadUnused ==
    /\ downloadChan = <<>>
    /\ downloadClosed = FALSE
    /\ downloadWorkers = <<>>
    /\ containerWG = 0
    /\ dirExists = {}
    /\ dirExistsLock = 0
    /\ mkdirs = <<>>
    /\ producer = <<>>
    /\ enqueued = 0
    /\ received = 0

\* ====================================================== benchMixed ======
\* The state of benchMixed when its goroutines have been started, for given
\* flags.
MixedStart ==
    /\ RatioUnused
    /\ bench = "benchMixed"
    /\ count = 0
    /\ iterations = 0
    /\ benchChan = <<>>
    /\ closed = FALSE
    /\ workers = EmptyBag
    /\ loopI = 0
    /\ iteration = 0
    /\ lastSoFar = 0
    /\ calls = <<>>
    /\ completed = 0
    /\ failures = 0
    /\ exited = FALSE
    /\ csvlk = FALSE
    /\ csvw = EmptyBag
    /\ csvotw = IF csvot THEN <<[k \in Kinds |-> 0]>> ELSE <<>>
    /\ doneChan = FALSE
    /\ chans = [k \in Kinds |-> <<>>]
    /\ counters = [k \in Kinds |-> 0]
    /\ lastCounters = [k \in Kinds |-> 0]
    /\ pools = [k \in Kinds |-> Copies(concurrency, Idle)]
    /\ producers = [k \in Kinds |->
                      [pc |-> IF k = "PUT" THEN "select" ELSE "top",
                       i |-> 0, lo |-> 0]]
    /\ sent = [k \in Kinds |-> 0]
    /\ reporter = "select"
    /\ main = "Wait"

\* Runs without -csv and -csvot.
InitMixed ==
    /\ concurrency \in 1..MaxConcurrency
    /\ continueOnError \in BOOLEAN
    /\ csv = FALSE
    /\ csvot = FALSE
    /\ size = 0
    /\ maxsize = 0
    /\ containers = 1
    /\ ProvUnused
    /\ DownloadUnused
    /\ cleanup = NoCleanup
    /\ runElapsed = 0
    /\ margin = DeleteMargin
    /\ MixedStart

\* Runs with -csvot, at concurrency 1.
InitMixedCsvot ==
    /\ concurrency = 1
    /\ continueOnError \in BOOLEAN
    /\ csv = FALSE
    /\ csvot = TRUE
    /\ size = 0
    /\ maxsize = 0
    /\ containers = 1
    /\ ProvUnused
    /\ DownloadUnused
    /\ cleanup = NoCleanup
    /\ runElapsed = 0
    /\ margin = DeleteMargin
    /\ MixedStart

\* Runs with -csv, at concurrency 1.
InitMixedCsv ==
    /\ concurrency = 1
    /\ continueOnError \in BOOLEAN
    /\ csv = TRUE
    /\ csvot = FALSE
    /\ size = 0
    /\ maxsize = 0
    /\ containers = 1
    /\ ProvUnused
    /\ DownloadUnused
    /\ cleanup = NoCleanup
    /\ runElapsed = 0
    /\ margin = DeleteMargin
    /\ MixedStart


Alive == ~exited

\* The object indices whose PutObject call has returned: sent by the PUT
\* producer, no longer queued in putChan, and not inside a worker's call.
PutReturned ==
    {i \in 0..(producers["PUT"].i - 1) :
        /\ \A n \in 1..Len(chans["PUT"]) : chans["PUT"][n] # i
        /\ \A w \in BagToSet(pools["PUT"]) : ~(w.pc = "call" /\ w.i = i)}

\* The tasks of kind k that a worker is executing a StorageClient call for.
InCall(k) == {w \in BagToSet(pools[k]) : w.pc = "call"}

\* Number of workers of all pools on their way to cliFatalf.
Failing ==
    CopiesIn(Fatal, pools["DELETE"]) + CopiesIn(Fatal, pools["GET"])
        + CopiesIn(Fatal, pools["PUT"])

\* The statuses the environment may answer a call with.
Statuses == IF continueOnError \/ Failing < MaxFailing THEN BOOLEAN ELSE {TRUE}

\* go func() { <-timespanTicker.C; close(doneChan) }()
TimerFire ==
    /\ Alive /\ ~doneChan
    /\ doneChan' = TRUE
    /\ UNCHANGED <<fixedVars, ratioVars, provVars, downloadVars, cleanup, runElapsed, config, exited, csvlk, csvw, csvotw, chans,
                   counters, lastCounters, pools, producers, sent, reporter,
                   main>>

\* worker: select { case <-doneChan: wg.Done(); return ... }
WorkerDone(k) ==
    /\ Alive /\ doneChan
    /\ BagIn(Idle, pools[k])
    /\ pools' = [pools EXCEPT ![k] = Replace(@, Idle, Gone)]
    /\ UNCHANGED <<fixedVars, ratioVars, provVars, downloadVars, cleanup, runElapsed, config, exited, csvlk, csvw, csvotw, doneChan,
                   chans, counters, lastCounters, producers, sent, reporter,
                   main>>

\* worker: select { ... case i = <-xChan: } followed by the start of the
\* StorageClient call on object i.
WorkerRecv(k) ==
    /\ Alive
    /\ BagIn(Idle, pools[k])
    /\ Len(chans[k]) > 0
    /\ pools' = [pools EXCEPT ![k] =
                   Replace(@, Idle, [pc |-> "call", i |-> Head(chans[k]), ok |-> TRUE])]
    /\ chans' = [chans EXCEPT ![k] = Tail(@)]
    /\ UNCHANGED <<fixedVars, ratioVars, provVars, downloadVars, cleanup, runElapsed, config, exited, csvlk, csvw, csvotw, doneChan,
                   counters, lastCounters, producers, sent, reporter, main>>

\* Where a worker goes once the response is in hand and the CSV part is
\* over: the status check of its loop body.
AfterCsv(w) ==
    IF ~w.ok /\ ~continueOnError
    THEN Fatal
    ELSE Idle

\* worker: the call returns with some status; atomic.AddInt64(&xs, 1); then
\* either the CSV part (csvw != nil) or the status check.
WorkerReturn(k) ==
    /\ Alive
    /\ \E w \in InCall(k), ok \in Statuses :
         LET r == [w EXCEPT !.ok = ok] IN
         pools' = [pools EXCEPT ![k] =
                     Replace(@, w, IF csv THEN [r EXCEPT !.pc = "lock"]
                                          ELSE AfterCsv(r))]
    /\ counters' = [counters EXCEPT ![k] = @ + 1]
    /\ UNCHANGED <<fixedVars, ratioVars, provVars, downloadVars, cleanup, runElapsed, config, exited, csvlk, csvw, csvotw, doneChan,
                   chans, lastCounters, producers, sent, reporter, main>>

\* A Lock that does not wait for the holder to unlock.
WorkerLockNoWait(k) ==
    /\ Alive
    /\ \E w \in BagToSet(pools[k]) :
         /\ w.pc = "lock"
         /\ pools' = [pools EXCEPT ![k] = Replace(@, w, [w EXCEPT !.pc = "write"])]
    /\ csvlk' = TRUE
    /\ UNCHANGED <<fixedVars, ratioVars, provVars, downloadVars, cleanup, runElapsed, config, exited, csvw, csvotw, doneChan, chans,
                   counters, lastCounters, producers, sent, reporter, main>>

\* worker: csvlk.Lock()
WorkerLock(k) ==
    /\ Alive /\ ~csvlk
    /\ \E w \in BagToSet(pools[k]) :
         /\ w.pc = "lock"
         /\ pools' = [pools EXCEPT ![k] = Replace(@, w, [w EXCEPT !.pc = "write"])]
    /\ csvlk' = TRUE
    /\ UNCHANGED <<fixedVars, ratioVars, provVars, downloadVars, cleanup, runElapsed, config, exited, csvw, csvotw, doneChan, chans,
                   counters, lastCounters, producers, sent, reporter, main>>

\* worker: csvw.Write(row); csvw.Flush(); csvlk.Unlock(); status check.
WorkerWrite(k) ==
    /\ Alive
    /\ \E w \in BagToSet(pools[k]) :
         /\ w.pc = "write"
         /\ pools' = [pools EXCEPT ![k] = Replace(@, w, AfterCsv(w))]
         /\ csvw' = csvw (+) One([method |-> k, object |-> w.i])
    /\ csvlk' = FALSE
    /\ UNCHANGED <<fixedVars, ratioVars, provVars, downloadVars, cleanup, runElapsed, config, exited, csvotw, doneChan, chans,
                   counters, lastCounters, producers, sent, reporter, main>>

\* worker: cli.fatalf(...) -> cliFatalf: os.Exit(1)
WorkerFatalf(k) ==
    /\ Alive
    /\ BagIn(Fatal, pools[k])
    /\ exited' = TRUE
    /\ UNCHANGED <<fixedVars, ratioVars, provVars, downloadVars, cleanup, runElapsed, config, csvlk, csvw, csvotw, doneChan, chans,
                   counters, lastCounters, pools, producers, sent, reporter,
                   main>>

\* any producer: select { case <-doneChan: return ... }
ProducerDone(k) ==
    /\ Alive /\ doneChan
    /\ producers[k].pc = "select"
    /\ producers' = [producers EXCEPT ![k].pc = "exited"]
    /\ UNCHANGED <<fixedVars, ratioVars, provVars, downloadVars, cleanup, runElapsed, config, exited, csvlk, csvw, csvotw, doneChan,
                   chans, counters, lastCounters, pools, sent, reporter, main>>

\* A send into a channel without a bound: it never blocks.
SendUnbounded(k, next) ==
    /\ Alive
    /\ producers[k].pc = "select"
    /\ chans' = [chans EXCEPT ![k] = Append(@, producers[k].i)]
    /\ producers' = [producers EXCEPT ![k].i = @ + 1, ![k].pc = next]
    /\ sent' = [sent EXCEPT ![k] = @ + 1]
    /\ UNCHANGED <<fixedVars, ratioVars, provVars, downloadVars, cleanup, runElapsed, config, exited, csvlk, csvw, csvotw, doneChan,
                   counters, lastCounters, pools, reporter, main>>

\* A send that also counts: the counter incremented at dispatch.
SendCounting(k, next) ==
    /\ Alive
    /\ producers[k].pc = "select"
    /\ Len(chans[k]) < concurrency
    /\ chans' = [chans EXCEPT ![k] = Append(@, producers[k].i)]
    /\ producers' = [producers EXCEPT ![k].i = @ + 1, ![k].pc = next]
    /\ sent' = [sent EXCEPT ![k] = @ + 1]
    /\ counters' = [counters EXCEPT ![k] = @ + 1]
    /\ UNCHANGED <<fixedVars, ratioVars, provVars, downloadVars, cleanup, runElapsed, config, exited, csvlk, csvw, csvotw, doneChan,
                   lastCounters, pools, reporter, main>>

\* The send of a producer's select: case xChan <- i: i++
Send(k, next) ==
    /\ Alive
    /\ producers[k].pc = "select"
    /\ Len(chans[k]) < concurrency
    /\ chans' = [chans EXCEPT ![k] = Append(@, producers[k].i)]
    /\ producers' = [producers EXCEPT ![k].i = @ + 1, ![k].pc = next]
    /\ sent' = [sent EXCEPT ![k] = @ + 1]
    /\ UNCHANGED <<fixedVars, ratioVars, provVars, downloadVars, cleanup, runElapsed, config, exited, csvlk, csvw, csvotw, doneChan,
                   counters, lastCounters, pools, reporter, main>>

\* The PUT producer runs until doneChan is closed; the model stops it at
\* this index, sooner at higher concurrency.
PutLimit == MaxPuts + 1 - concurrency + (margin - DeleteMargin)

\* PUT producer: free running.
PutSend == producers["PUT"].i < PutLimit /\ Send("PUT", "select")

\* DeleteTop with the margin forgotten: hi := puts.
DeleteTopNoMargin ==
    /\ Alive
    /\ producers["DELETE"].pc = "top"
    /\ LET hi == counters["PUT"] IN
       producers' = [producers EXCEPT !["DELETE"].pc =
                       IF producers["DELETE"].i > hi THEN "poll" ELSE "select"]
    /\ UNCHANGED <<fixedVars, ratioVars, provVars, downloadVars, cleanup, runElapsed, config, exited, csvlk, csvw, csvotw, doneChan, chans,
                   counters, lastCounters, pools, sent, reporter, main>>

\* DELETE producer, loop top: hi := puts - 10000; if i > hi, poll.
DeleteTop ==
    /\ Alive
    /\ producers["DELETE"].pc = "top"
    /\ LET hi == counters["PUT"] - margin IN
       producers' = [producers EXCEPT !["DELETE"].pc =
                       IF producers["DELETE"].i > hi THEN "poll" ELSE "select"]
    /\ UNCHANGED <<fixedVars, ratioVars, provVars, downloadVars, cleanup, runElapsed, config, exited, csvlk, csvw, csvotw, doneChan,
                   chans, counters, lastCounters, pools, sent, reporter, main>>

DeleteSend == Send("DELETE", "top")

\* A poll whose doneChan case only leaves the select (break) and goes round
\* the loop again.
PollDoneBreak(k) ==
    /\ Alive /\ doneChan
    /\ producers[k].pc = "poll"
    /\ producers' = [producers EXCEPT ![k].pc = "top"]
    /\ UNCHANGED <<fixedVars, ratioVars, provVars, downloadVars, cleanup, runElapsed, config, exited, csvlk, csvw, csvotw, doneChan,
                   chans, counters, lastCounters, pools, sent, reporter, main>>

\* poll: select { case <-doneChan: return; default: }
PollDone(k) ==
    /\ Alive /\ doneChan
    /\ producers[k].pc = "poll"
    /\ producers' = [producers EXCEPT ![k].pc = "exited"]
    /\ UNCHANGED <<fixedVars, ratioVars, provVars, downloadVars, cleanup, runElapsed, config, exited, csvlk, csvw, csvotw, doneChan,
                   chans, counters, lastCounters, pools, sent, reporter, main>>

\* A poll that moves on to the next index after its sleep: i++ before
\* continue.
PollSleepSkips(k) ==
    /\ Alive /\ ~doneChan
    /\ producers[k].pc = "poll"
    /\ producers' = [producers EXCEPT ![k].pc = "top", ![k].i = @ + 1]
    /\ UNCHANGED <<fixedVars, ratioVars, provVars, downloadVars, cleanup, runElapsed, config, exited, csvlk, csvw, csvotw, doneChan,
                   chans, counters, lastCounters, pools, sent, reporter, main>>

\* poll: default case, time.Sleep(time.Second); continue
PollSleep(k) ==
    /\ Alive /\ ~doneChan
    /\ producers[k].pc = "poll"
    /\ producers' = [producers EXCEPT ![k].pc = "top"]
    /\ UNCHANGED <<fixedVars, ratioVars, provVars, downloadVars, cleanup, runElapsed, config, exited, csvlk, csvw, csvotw, doneChan,
                   chans, counters, lastCounters, pools, sent, reporter, main>>

\* ReadLo without the slack of the queue and the calls: lo := deletes.
ReadLoNoSlack(k) ==
    /\ Alive
    /\ producers[k].pc = "top"
    /\ LET lo == counters["DELETE"] IN
       producers' = [producers EXCEPT ![k] =
                       [pc |-> "hi", i |-> Max(@.i, lo), lo |-> lo]]
    /\ UNCHANGED <<fixedVars, ratioVars, provVars, downloadVars, cleanup, runElapsed, config, exited, csvlk, csvw, csvotw, doneChan,
                   chans, counters, lastCounters, pools, sent, reporter, main>>

\* GET/HEAD/POST producer, loop top:
\*   lo := deletes + concurrency*2; if i < lo { i = lo }
ReadLo(k) ==
    /\ Alive
    /\ producers[k].pc = "top"
    /\ LET lo == counters["DELETE"] + concurrency * 2 IN
       producers' = [producers EXCEPT ![k] =
                       [pc |-> "hi", i |-> Max(@.i, lo), lo |-> lo]]
    /\ UNCHANGED <<fixedVars, ratioVars, provVars, downloadVars, cleanup, runElapsed, config, exited, csvlk, csvw, csvotw, doneChan,
                   chans, counters, lastCounters, pools, sent, reporter, main>>

\* ReadHi with twice the distance to the completed PUTs:
\*   hi := puts - concurrency*4
ReadHiNarrow(k) ==
    /\ Alive
    /\ producers[k].pc = "hi"
    /\ LET hi == counters["PUT"] - concurrency * 4
           p == producers[k]
           i == IF p.i > hi THEN p.lo ELSE p.i
       IN producers' = [producers EXCEPT ![k] =
                          [pc |-> IF i > hi THEN "poll" ELSE "select",
                           i |-> i, lo |-> 0]]
    /\ UNCHANGED <<fixedVars, ratioVars, provVars, downloadVars, cleanup, runElapsed, config, exited, csvlk, csvw, csvotw, doneChan,
                   chans, counters, lastCounters, pools, sent, reporter, main>>

\* GET/HEAD/POST producer:
\*   hi := puts - concurrency*2; if i > hi { i = lo }; if i > hi, poll.
ReadHi(k) ==
    /\ Alive
    /\ producers[k].pc = "hi"
    /\ LET hi == counters["PUT"] - concurrency * 2
           p == producers[k]
           i == IF p.i > hi THEN p.lo ELSE p.i
       IN producers' = [producers EXCEPT ![k] =
                          [pc |-> IF i > hi THEN "poll" ELSE "select",
                           i |-> i, lo |-> 0]]
    /\ UNCHANGED <<fixedVars, ratioVars, provVars, downloadVars, cleanup, runElapsed, config, exited, csvlk, csvw, csvotw, doneChan,
                   chans, counters, lastCounters, pools, sent, reporter, main>>

ReadSend(k) == sent[k] < MaxReads /\ Send(k, "top")

\* reporter: case <-doneChan: return
ReporterDone ==
    /\ Alive /\ doneChan
    /\ reporter = "select"
    /\ reporter' = "exited"
    /\ UNCHANGED <<fixedVars, ratioVars, provVars, downloadVars, cleanup, runElapsed, config, exited, csvlk, csvw, csvotw, doneChan,
                   chans, counters, lastCounters, pools, producers, sent, main>>

\* A tick that writes its row and forgets the snapshot.
ReporterTickForgets ==
    /\ Alive
    /\ reporter = "select"
    /\ csvot => Len(csvotw) <= MaxTicks
    /\ IF csvot
       THEN /\ csvotw' = Append(csvotw, [k \in Kinds |-> counters[k] - lastCounters[k]])
            /\ UNCHANGED lastCounters
       ELSE UNCHANGED <<csvotw, lastCounters>>
    /\ UNCHANGED <<fixedVars, ratioVars, provVars, downloadVars, cleanup, runElapsed, config, exited, csvlk, csvw, doneChan, chans, counters,
                   pools, producers, sent, reporter, main>>

\* reporter: case <-updateTicker.C: snapshot the counters, print, and with
\* csvotw != nil write the deltas and remember the snapshot.
ReporterTick ==
    /\ Alive
    /\ reporter = "select"
    /\ csvot => Len(csvotw) <= MaxTicks
    /\ IF csvot
       THEN /\ csvotw' = Append(csvotw, [k \in Kinds |-> counters[k] - lastCounters[k]])
            /\ lastCounters' = counters
       ELSE UNCHANGED <<csvotw, lastCounters>>
    /\ UNCHANGED <<fixedVars, ratioVars, provVars, downloadVars, cleanup, runElapsed, config, exited, csvlk, csvw, doneChan, chans, counters,
                   pools, producers, sent, reporter, main>>

\* A wait group the worker goroutines were not added to.
AllGoneButWorkers ==
    /\ \A k \in Kinds : producers[k].pc = "exited"
    /\ reporter = "exited"

\* Every goroutine counted by wg has called wg.Done().
AllGone ==
    /\ \A k \in Kinds : producers[k].pc = "exited"
    /\ \A k \in Kinds : BagToSet(pools[k]) = {Gone}
    /\ reporter = "exited"

\* benchMixed itself: wg.Wait() returns; totals are printed and the last
\* -csvot row is written.
MixedReport ==
    /\ Alive
    /\ main = "Wait"
    /\ AllGone
    /\ main' = "Reported"
    /\ csvotw' = IF csvot
                 THEN Append(csvotw, [k \in Kinds |-> counters[k] - lastCounters[k]])
                 ELSE csvotw
    /\ UNCHANGED <<fixedVars, ratioVars, provVars, downloadVars, cleanup, runElapsed, config, exited, csvlk, csvw, doneChan, chans, counters,
                   lastCounters, pools, producers, sent, reporter>>

MixedCore ==
    \/ TimerFire
    \/ \E k \in Kinds : WorkerDone(k)
    \/ \E k \in Kinds : WorkerRecv(k)
    \/ \E k \in Kinds : WorkerReturn(k)
    \/ \E k \in Kinds : WorkerFatalf(k)
    \/ \E k \in Kinds : ProducerDone(k)
    \/ PutSend
    \/ DeleteTop
    \/ DeleteSend
    \/ \E k \in {"DELETE", "GET"} : PollDone(k)
    \/ \E k \in {"DELETE", "GET"} : PollSleep(k)
    \/ ReadLo("GET")
    \/ ReadHi("GET")
    \/ ReadSend("GET")
    \/ ReporterDone
    \/ ReporterTick
    \/ MixedReport

NextMixed == MixedCore

NextMixedCsv ==
    \/ MixedCore
    \/ \E k \in Kinds : WorkerLock(k)
    \/ \E k \in Kinds : WorkerWrite(k)

SpecMixed == InitMixed /\ [][NextMixed]_vars

SpecMixedCsvot == InitMixedCsvot /\ [][NextMixed]_vars

\* Runs whose margin exceeds 4 * concurrency: concurrency 1, without -csv
\* and -csvot.
InitMixedWide ==
    /\ concurrency = 1
    /\ continueOnError \in BOOLEAN
    /\ csv = FALSE
    /\ csvot = FALSE
    /\ size = 0
    /\ maxsize = 0
    /\ containers = 1
    /\ ProvUnused
    /\ DownloadUnused
    /\ cleanup = NoCleanup
    /\ runElapsed = 0
    /\ margin = WideMargin
    /\ MixedStart

\* Scheduling of benchMixed.  A goroutine that can take a step eventually
\* takes one and a StorageClient call eventually returns; a select whose
\* doneChan case is ready again and again eventually chooses it, as the
\* runtime chooses among the ready cases at random.  The model asks for less:
\* some step of MixedProgress is taken when one stays possible, and some
\* step of MixedExits is taken when one is possible again and again.  The
\* timer is not required to fire, and no send or receive is required.
MixedProgress ==
    \/ \E k \in Kinds : WorkerReturn(k)
    \/ \E k \in Kinds : WorkerFatalf(k)
    \/ DeleteTop
    \/ ReadLo("GET")
    \/ ReadHi("GET")

MixedExits ==
    \/ \E k \in Kinds : WorkerDone(k)
    \/ \E k \in Kinds : ProducerDone(k)
    \/ \E k \in {"DELETE", "GET"} : PollDone(k)
    \/ ReporterDone
    \/ MixedReport

FairMixed == WF_vars(MixedProgress) /\ SF_vars(MixedExits)

\* The runs termination is checked on: without -csv and -csvot, at every
\* concurrency with -continue-on-error and at concurrency 1 without it.
InitMixedFair == InitMixed /\ (continueOnError \/ concurrency = 1)

SpecMixedFair == InitMixedFair /\ [][NextMixed]_vars /\ FairMixed

\* A GET producer that is scheduled, whose sleep ends and whose select takes
\* a send that stays possible.
FairReads ==
    /\ WF_vars(ReadLo("GET"))
    /\ WF_vars(ReadHi("GET"))
    /\ WF_vars(PollSleep("GET"))
    /\ WF_vars(ReadSend("GET"))

SpecMixedWideFair ==
    InitMixedWide /\ [][NextMixed]_vars /\ FairReads

\* ============================================== fixed-count drivers =====
\* A worker goroutine blocked in i := <-benchChan.
Receiving == [pc |-> "recv", i |-> 0, ok |-> TRUE]

FixedStart ==
    /\ RatioUnused
    /\ exited = FALSE
    /\ csvlk = FALSE
    /\ csvw = EmptyBag
    /\ csvotw = IF csvot THEN <<0>> ELSE <<>>
    /\ benchChan = <<>>
    /\ closed = FALSE
    /\ workers = Copies(concurrency, Receiving)
    /\ loopI = 1
    /\ iteration = 0
    /\ lastSoFar = 0
    /\ calls = [n \in 0..(count - 1) |-> 0]
    /\ completed = 0
    /\ failures = 0
    /\ main = "Running"
    /\ doneChan = FALSE
    /\ chans = <<>>
    /\ counters = <<>>
    /\ lastCounters = <<>>
    /\ pools = <<>>
    /\ producers = <<>>
    /\ sent = <<>>
    /\ reporter = "none"

InitFixed ==
    /\ bench \in Drivers
    /\ count \in 1..MaxCount
    /\ iterations \in (IF bench \in Iterating THEN 1..MaxIterations ELSE {1})
    /\ concurrency \in 1..MaxConcurrency
    /\ continueOnError \in BOOLEAN
    /\ csv \in BOOLEAN
    /\ csvot \in BOOLEAN
    /\ size = 0
    /\ maxsize = 0
    /\ containers = 1
    /\ ProvUnused
    /\ DownloadUnused
    /\ cleanup = NoCleanup
    /\ runElapsed = 0
    /\ margin = DeleteMargin
    /\ FixedStart

fixedConfig == <<bench, count, iterations>>

\* A producer loop that stops one short: for i := 1; i < count.
LoopingShort == iteration < iterations /\ loopI < count

\* The producer loops: for iteration < iterations { for i := 1; i <= count }
\* In benchGet of package main: for iteration := 0; iteration <= iterations.
Looping ==
    /\ IF bench = MainGet THEN iteration <= iterations
                          ELSE iteration < iterations
    /\ loopI <= count

\* A tick that writes its row and forgets lastSoFar = soFar.
FixedTickForgets ==
    /\ Alive
    /\ main = "Running" /\ Looping
    /\ csvot => Len(csvotw) <= MaxTicks
    /\ LET soFar == iteration * count + loopI - concurrency IN
       IF csvot
       THEN /\ csvotw' = Append(csvotw, soFar - lastSoFar)
            /\ UNCHANGED lastSoFar
       ELSE UNCHANGED <<csvotw, lastSoFar>>
    /\ UNCHANGED <<mixedVars, ratioVars, provVars, downloadVars, cleanup, runElapsed, config, fixedConfig, exited, csvlk, csvw, main,
                   benchChan, closed, workers, loopI, iteration, calls,
                   completed, failures>>

\* producer: case <-ticker.C: with csvotw != nil, write soFar - lastSoFar.
FixedTick ==
    /\ Alive
    /\ main = "Running" /\ Looping
    /\ csvot => Len(csvotw) <= MaxTicks
    /\ LET soFar == iteration * count + loopI - concurrency IN
       IF csvot
       THEN /\ csvotw' = Append(csvotw, soFar - lastSoFar)
            /\ lastSoFar' = soFar
       ELSE UNCHANGED <<csvotw, lastSoFar>>
    /\ UNCHANGED <<mixedVars, ratioVars, provVars, downloadVars, cleanup, runElapsed, config, fixedConfig, exited, csvlk, csvw, main,
                   benchChan, closed, workers, loopI, iteration, calls,
                   completed, failures>>

\* producer: case benchChan <- i: then i++, and the next iteration after
\* i = count.
FixedSend ==
    /\ Alive
    /\ main = "Running" /\ Looping
    /\ Len(benchChan) < concurrency
    /\ benchChan' = Append(benchChan, loopI)
    /\ IF loopI + 1 <= count
       THEN loopI' = loopI + 1 /\ UNCHANGED iteration
       ELSE loopI' = 1 /\ iteration' = iteration + 1
    /\ UNCHANGED <<mixedVars, ratioVars, provVars, downloadVars, cleanup, runElapsed, config, fixedConfig, exited, csvlk, csvw, csvotw,
                   main, closed, workers, lastSoFar, calls, completed, failures>>

\* A producer that goes to wg.Wait() without close(benchChan).
FixedCloseForgotten ==
    /\ Alive
    /\ main = "Running" /\ ~Looping
    /\ main' = "Wait"
    /\ UNCHANGED <<mixedVars, ratioVars, provVars, downloadVars, cleanup, runElapsed, config, fixedConfig, exited, csvlk, csvw, csvotw,
                   benchChan, closed, workers, loopI, iteration, lastSoFar,
                   calls, completed, failures>>

\* producer: close(benchChan), then wg.Wait()
FixedClose ==
    /\ Alive
    /\ main = "Running" /\ ~Looping
    /\ closed' = TRUE
    /\ main' = "Wait"
    /\ UNCHANGED <<mixedVars, ratioVars, provVars, downloadVars, cleanup, runElapsed, config, fixedConfig, exited, csvlk, csvw, csvotw,
                   benchChan, workers, loopI, iteration, lastSoFar, calls,
                   completed, failures>>

\* A worker whose receive does not block: an empty channel that is still
\* open yields 0 as well.
FixedRecvNonBlocking ==
    /\ Alive
    /\ BagIn(Receiving, workers)
    /\ LET v == IF Len(benchChan) > 0 THEN Head(benchChan) ELSE 0 IN
       IF v = 0
       THEN /\ workers' = Replace(workers, Receiving, Gone)
            /\ UNCHANGED <<benchChan, calls>>
       ELSE /\ workers' = Replace(workers, Receiving,
                                  [pc |-> "call", i |-> v - 1, ok |-> TRUE])
            /\ benchChan' = Tail(benchChan)
            /\ calls' = [calls EXCEPT ![v - 1] = @ + 1]
    /\ UNCHANGED <<mixedVars, ratioVars, provVars, downloadVars, cleanup, runElapsed, config, fixedConfig, exited, csvlk, csvw, csvotw,
                   main, closed, loopI, iteration, lastSoFar, completed,
                   failures>>

\* worker: i := <-benchChan; if i == 0 { break }; i--; the StorageClient call
\* on object i starts.  A closed and drained channel yields 0.
FixedRecv ==
    /\ Alive
    /\ BagIn(Receiving, workers)
    /\ Len(benchChan) > 0 \/ closed
    /\ LET v == IF Len(benchChan) > 0 THEN Head(benchChan) ELSE 0 IN
       IF v = 0
       THEN /\ workers' = Replace(workers, Receiving, Gone)
            /\ UNCHANGED <<benchChan, calls>>
       ELSE /\ workers' = Replace(workers, Receiving,
                                  [pc |-> "call", i |-> v - 1, ok |-> TRUE])
            /\ benchChan' = Tail(benchChan)
            /\ calls' = [calls EXCEPT ![v - 1] = @ + 1]
    /\ UNCHANGED <<mixedVars, ratioVars, provVars, downloadVars, cleanup, runElapsed, config, fixedConfig, exited, csvlk, csvw, csvotw,
                   main, closed, loopI, iteration, lastSoFar, completed,
                   failures>>

\* The drivers whose worker writes the CSV row before it checks the status
\* (benchDelete, benchPost, benchPut); benchGet and benchHead check first.
RowBeforeCheck == bench \notin Iterating

\* A status check that does not look at -continue-on-error.
FixedCheckAlwaysFatal(w) ==
    IF ~w.ok THEN Fatal ELSE Receiving

\* The status check of a fixed-count worker: non-2xx is fatal, or logged and
\* skipped with -continue-on-error.
FixedCheck(w) ==
    IF ~w.ok /\ ~continueOnError THEN Fatal ELSE Receiving

\* A worker that takes csvw for nil and never writes its row.
FixedAfterCallNoRow(r) == FixedCheck(r)

\* Where a worker goes with the response r in hand.
FixedAfterCall(r) ==
    IF RowBeforeCheck
    THEN IF csv THEN [r EXCEPT !.pc = "lock"] ELSE FixedCheck(r)
    ELSE IF ~r.ok THEN FixedCheck(r)
         ELSE IF csv THEN [r EXCEPT !.pc = "lock"] ELSE Receiving

\* The statuses the environment may answer a call of a fixed-count driver
\* with.
FixedStatuses == IF failures < MaxFailures THEN BOOLEAN ELSE {TRUE}

\* worker: the StorageClient call returns.
FixedReturn ==
    /\ Alive
    /\ \E w \in {v \in BagToSet(workers) : v.pc = "call"}, ok \in FixedStatuses :
         /\ workers' = Replace(workers, w, FixedAfterCall([w EXCEPT !.ok = ok]))
         /\ failures' = IF ok THEN failures ELSE failures + 1
    /\ completed' = completed + 1
    /\ UNCHANGED <<mixedVars, ratioVars, provVars, downloadVars, cleanup, runElapsed, config, fixedConfig, exited, csvlk, csvw, csvotw,
                   main, benchChan, closed, loopI, iteration, lastSoFar, calls>>

\* worker: csvlk.Lock()
FixedLock ==
    /\ Alive /\ ~csvlk
    /\ \E w \in {v \in BagToSet(workers) : v.pc = "lock"} :
         workers' = Replace(workers, w, [w EXCEPT !.pc = "write"])
    /\ csvlk' = TRUE
    /\ UNCHANGED <<mixedVars, ratioVars, provVars, downloadVars, cleanup, runElapsed, config, fixedConfig, exited, csvw, csvotw, main,
                   benchChan, closed, loopI, iteration, lastSoFar, calls,
                   completed, failures>>

\* worker: csvw.Write(row); csvw.Flush(); csvlk.Unlock(); then the status
\* check (benchDelete, benchPost, benchPut) or the next task.
FixedWrite ==
    /\ Alive
    /\ \E w \in {v \in BagToSet(workers) : v.pc = "write"} :
         /\ workers' = Replace(workers, w,
                               IF RowBeforeCheck THEN FixedCheck(w) ELSE Receiving)
         /\ csvw' = csvw (+) One([object |-> w.i])
    /\ csvlk' = FALSE
    /\ UNCHANGED <<mixedVars, ratioVars, provVars, downloadVars, cleanup, runElapsed, config, fixedConfig, exited, csvotw, main,
                   benchChan, closed, loopI, iteration, lastSoFar, calls,
                   completed, failures>>

\* worker: cli.fatalf(...) -> cliFatalf: os.Exit(1)
FixedFatalf ==
    /\ Alive
    /\ BagIn(Fatal, workers)
    /\ exited' = TRUE
    /\ UNCHANGED <<mixedVars, ratioVars, provVars, downloadVars, cleanup, runElapsed, config, fixedConfig, csvlk, csvw, csvotw, main,
                   benchChan, closed, workers, loopI, iteration, lastSoFar,
                   calls, completed, failures>>

\* time.Second, in nanoseconds.
Second == 1000000000

\* The times a run may have taken, in nanoseconds: around each whole second
\* up to MaxSeconds, and almost none.
Durations ==
    {1} \cup UNION {{n * Second - 1, n * Second, n * Second + 1} : n \in 1..MaxSeconds}

\* producer: wg.Wait() returns; stop := time.Now(); elapsed :=
\* stop.Sub(start); the totals are printed and the last -csvot row is
\* written.
FixedReport ==
    /\ Alive
    /\ main = "Wait"
    /\ BagToSet(workers) = {Gone}
    /\ main' = "Reported"
    /\ runElapsed' \in Durations
    /\ csvotw' = IF csvot
                 THEN Append(csvotw, iterations * count - lastSoFar)
                 ELSE csvotw
    /\ UNCHANGED <<mixedVars, ratioVars, provVars, downloadVars, cleanup, config, fixedConfig, exited, csvlk, csvw,
                   benchChan, closed, workers, loopI, iteration, lastSoFar,
                   calls, completed, failures>>

NextFixed ==
    \/ FixedTick
    \/ FixedSend
    \/ FixedClose
    \/ FixedRecv
    \/ FixedReturn
    \/ FixedLock
    \/ FixedWrite
    \/ FixedFatalf
    \/ FixedReport

SpecFixed == InitFixed /\ [][NextFixed]_vars

\* Scheduling of a fixed-count driver: a goroutine that can take a step
\* eventually takes one and a StorageClient call eventually returns.  The
\* ticker is not required to tick.
FixedProgress ==
    \/ FixedSend
    \/ FixedClose
    \/ FixedRecv
    \/ FixedReturn
    \/ FixedLock
    \/ FixedWrite
    \/ FixedFatalf
    \/ FixedReport

SpecFixedFair == InitFixed /\ [][NextFixed]_vars /\ WF_vars(FixedProgress)

\* bench-get of the command line tool (package main).
InitGetMain ==
    /\ bench = MainGet
    /\ count \in 1..MaxCount
    /\ iterations \in 1..MaxIterations
    /\ concurrency \in 1..MaxConcurrency
    /\ continueOnError \in BOOLEAN
    /\ csv \in BOOLEAN
    /\ csvot \in BOOLEAN
    /\ size = 0
    /\ maxsize = 0
    /\ containers = 1
    /\ ProvUnused
    /\ DownloadUnused
    /\ cleanup = NoCleanup
    /\ runElapsed = 0
    /\ margin = DeleteMargin
    /\ FixedStart

SpecGetMain == InitGetMain /\ [][NextFixed]_vars

\* ========================================= container and object names =====
\* The <container> and [object] of the command line, as parsePath returns
\* them: a base container name and the object prefix (default "bench-").
container == <<"c", "1">>
object == <<"b", "e", "n", "c", "h", "-">>

\* containers := *cli.benchDeleteFlagContainers;
\* if containers < 1 { containers = 1 }
NormContainers(flag) == IF flag < 1 THEN 1 ELSE flag

\* The decimal digits of n >= 0, as %d prints them.
RECURSIVE Decimal(_)
Decimal(n) ==
    LET digit == <<"0", "1", "2", "3", "4", "5", "6", "7", "8", "9">>[(n % 10) + 1]
    IN  IF n < 10 THEN <<digit>> ELSE Decimal(n \div 10) \o <<digit>>

\* A worker that always appends the suffix, with one container too.
OpContainerAlwaysSuffixed(i) == container \o Decimal(i % containers)

\* deleteContainer := container; if containers > 1 {
\*     deleteContainer = fmt.Sprintf("%s%d", deleteContainer, i%containers) }
\* with the worker's i, which is the task it received less one.
OpContainer(i) ==
    IF containers > 1 THEN container \o Decimal(i % containers) ELSE container

\* deleteObject := fmt.Sprintf("%s%d", object, i)
OpObject(i) == object \o Decimal(i)

\* A provisioning loop that counts from 1: for x := 1; x <= containers; x++.
ProvisionedFromOne ==
    IF containers = 1 THEN {container}
    ELSE {container \o Decimal(x) : x \in 1..containers}

\* The containers benchPut sends a PutContainer for before its workers
\* start: container itself if containers == 1, else
\* for x := 0; x < containers; x++ { fmt.Sprintf("%s%d", container, x) }.
Provisioned ==
    IF containers = 1 THEN {container}
    ELSE {container \o Decimal(x) : x \in 0..(containers - 1)}

\* The (container, object) names the workers of the run have called the
\* StorageClient on.
Accessed ==
    {<<OpContainer(n), OpObject(n)>> : n \in {m \in DOMAIN calls : calls[m] > 0}}

\* The five fixed-count drivers with their -containers flag.
InitNames ==
    /\ bench \in Drivers
    /\ count \in 1..MaxCount
    /\ iterations \in (IF bench \in Iterating THEN 1..MaxIterations ELSE {1})
    /\ concurrency \in 1..MaxConcurrency
    /\ continueOnError \in BOOLEAN
    /\ csv \in BOOLEAN
    /\ csvot \in BOOLEAN
    /\ size = 0
    /\ maxsize = 0
    /\ \E flag \in 0..MaxContainers : containers = NormContainers(flag)
    /\ ProvUnused
    /\ DownloadUnused
    /\ cleanup = NoCleanup
    /\ runElapsed = 0
    /\ margin = DeleteMargin
    /\ FixedStart

SpecNames == InitNames /\ [][NextFixed]_vars

\* ============================================= benchPut: object sizes =====
\* The size benchPut falls back to: if size < 0 { size = 4096 }
DefaultSize == 4096

\* size := int64(*cli.benchPutFlagSize); if size < 0 { size = 4096 }
NormSize(flag) == IF flag < 0 THEN DefaultSize ELSE flag

\* maxsize := int64(*cli.benchPutFlagMaxSize);
\* if maxsize < size { maxsize = size }
NormMaxSize(flag, sz) == IF flag < sz THEN sz ELSE flag

\* The values rnd.Intn(n) may return with n = maxsize - size one too large.
IntnInclusive == 0..(maxsize - size)

\* The values rnd.Intn(int(maxsize - size)) may return: [0, n).
Intn == 0..(maxsize - size - 1)

\* sz := size; if maxsize > size { sz += int64(rnd.Intn(int(maxsize - size))) }
PutSizes == IF maxsize > size THEN {size + r : r \in Intn} ELSE {size}

\* bench-put with its -size and -maxsize flags.
InitPut ==
    /\ bench = "benchPut"
    /\ count \in 1..MaxCount
    /\ iterations = 1
    /\ concurrency \in 1..MaxConcurrency
    /\ continueOnError \in BOOLEAN
    /\ csv \in BOOLEAN
    /\ csvot \in BOOLEAN
    /\ \E sizeFlag \in -1..MaxSize, maxsizeFlag \in -1..(MaxSize + 1) :
         /\ size = NormSize(sizeFlag)
         /\ maxsize = NormMaxSize(maxsizeFlag, size)
    /\ containers = 1
    /\ ProvUnused
    /\ DownloadUnused
    /\ cleanup = NoCleanup
    /\ runElapsed = 0
    /\ margin = DeleteMargin
    /\ FixedStart

\* benchPut worker: i := <-benchChan; if i == 0 { break }; i--; the size of
\* the body is drawn and c.PutObject starts with a reader limited to it.
PutRecv ==
    /\ Alive
    /\ BagIn(Receiving, workers)
    /\ Len(benchChan) > 0 \/ closed
    /\ LET v == IF Len(benchChan) > 0 THEN Head(benchChan) ELSE 0 IN
       IF v = 0
       THEN /\ workers' = Replace(workers, Receiving, Gone)
            /\ UNCHANGED <<benchChan, calls>>
       ELSE /\ \E sz \in PutSizes :
                 workers' = Replace(workers, Receiving,
                              [pc |-> "call", i |-> v - 1, ok |-> TRUE, sz |-> sz])
            /\ benchChan' = Tail(benchChan)
            /\ calls' = [calls EXCEPT ![v - 1] = @ + 1]
    /\ UNCHANGED <<mixedVars, ratioVars, provVars, downloadVars, cleanup, runElapsed, config, fixedConfig, exited, csvlk, csvw, csvotw,
                   main, closed, loopI, iteration, lastSoFar, completed,
                   failures>>

NextPut ==
    \/ FixedTick
    \/ FixedSend
    \/ FixedClose
    \/ PutRecv
    \/ FixedReturn
    \/ FixedLock
    \/ FixedWrite
    \/ FixedFatalf
    \/ FixedReport

SpecPut == InitPut /\ [][NextPut]_vars

\* ================================== benchMixed, ratio-interleaved =========
\* The variant of benchMixed in package main (unnamed/part_000): one request
\* loop interleaves the five kinds by -ratios and feeds one worker pool
\* through one channel of words i<<4 | op.

\* const ( delet = iota; get; head; post; put )
Ops == 0..4
delet == 0
put == 4

\* The inner loop run once too often: for x := 0; x <= n; x++.
RepeatOnceMore(op, n) == [e \in 1..(n + 1) |-> op]

\* n copies of op, in a sequence.
Repeat(op, n) == [e \in 1..n |-> op]

\* for op, ratio := range ratios { n := Atoi(ratio);
\*     for x := 0; x < n; x++ { opOrder = append(opOrder, op) } }
RECURSIVE OpOrderFrom(_, _)
OpOrderFrom(r, op) ==
    IF op \notin Ops THEN <<>>
    ELSE Repeat(op, r[op]) \o OpOrderFrom(r, op + 1)

\* Go's integer division, which truncates toward zero.
GoDiv(a, b) == IF a >= 0 THEN a \div b ELSE -((-a) \div b)

\* The word a task travels as, i<<4 | op, and its two halves op := i & 0xf
\* and i >>= 4.
Word(i, op) == i * 16 + op
WordOp(w) == w % 16
WordIndex(w) == w \div 16

\* The state of the ratio-interleaved benchMixed when its request loop
\* starts, without -csv and -csvot.
InitRatio ==
    /\ bench = "benchMixed"
    /\ ProvUnused
    /\ DownloadUnused
    /\ cleanup = NoCleanup
    /\ runElapsed = 0
    /\ margin = DeleteMargin
    /\ concurrency \in 1..MaxConcurrency
    /\ continueOnError \in BOOLEAN
    /\ csv = FALSE
    /\ csvot = FALSE
    /\ size = 0
    /\ maxsize = 0
    /\ containers = 1
    /\ ratios \in [Ops -> 0..MaxWeight]
    /\ opOrder = OpOrderFrom(ratios, delet)
    /\ loopX = 0
    /\ sentDeletes = 0
    /\ sentPuts = 0
    /\ requestLoop = [pc |-> "pick", op |-> 0, i |-> 0]
    /\ elapsed = FALSE
    /\ exited = FALSE
    /\ csvlk = FALSE
    /\ csvw = EmptyBag
    /\ csvotw = <<>>
    /\ main = "Running"
    /\ count = 0
    /\ iterations = 0
    /\ benchChan = <<>>
    /\ closed = FALSE
    /\ workers = Copies(concurrency, Receiving)
    /\ loopI = 0
    /\ iteration = 0
    /\ lastSoFar = 0
    /\ calls = <<>>
    /\ completed = 0
    /\ failures = 0
    /\ doneChan = FALSE
    /\ chans = <<>>
    /\ counters = [op \in Ops |-> 0]
    /\ lastCounters = [op \in Ops |-> 0]
    /\ pools = <<>>
    /\ producers = <<>>
    /\ sent = [op \in Ops |-> 0]
    /\ reporter = "none"

\* What the ratio driver's steps leave alone.
ratioRest == <<config, provVars, downloadVars, cleanup, runElapsed, csvlk, csvw, csvotw, bench, count, iterations, loopI,
               iteration, lastSoFar, calls, doneChan, chans, lastCounters,
               pools, producers, reporter, ratios, opOrder>>

\* The time span elapses: timespanTicker.C becomes ready.
RatioTimeUp ==
    /\ Alive /\ ~elapsed
    /\ elapsed' = TRUE
    /\ UNCHANGED <<ratioRest, exited, main, benchChan, closed, workers,
                   completed, failures, counters, sent, loopX, sentDeletes,
                   sentPuts, requestLoop>>

\* An index drawn from the bottom of the range: i = sentDeletes + (x % rang)
ReadIndexNoOffset(rang) == sentDeletes + (loopX % rang)

\* default: i = sentDeletes + rang/2 + (x % rang)
ReadIndex(rang) == sentDeletes + GoDiv(rang, 2) + (loopX % rang)

\* The switch sends the request loop on to its next x without reaching the
\* select: delet while puts < 1000, GET/HEAD/POST while rang < 1000.
Gated(op) ==
    IF op = delet THEN counters[put] < PutFloor
    ELSE IF op = put THEN FALSE
    ELSE GoDiv(counters[put] - sentDeletes, 2) < RangFloor

\* requestLoop, top: op := opOrder[x%len(opOrder)], and the switch that
\* chooses i or continues with the next x.  With an empty opOrder the
\* remainder panics (integer divide by zero) and the process ends.
RatioPick ==
    /\ Alive
    /\ main = "Running" /\ requestLoop.pc = "pick"
    /\ loopX < MaxX
    /\ IF Len(opOrder) = 0
       THEN /\ exited' = TRUE
            /\ UNCHANGED <<loopX, sentDeletes, sentPuts, requestLoop>>
       ELSE
         LET op == opOrder[(loopX % Len(opOrder)) + 1]
             rang == GoDiv(counters[put] - sentDeletes, 2)
         IN  /\ UNCHANGED exited
             /\ IF op = delet
                THEN IF Gated(op)
                     THEN /\ loopX' = loopX + 1
                          /\ UNCHANGED <<sentDeletes, sentPuts, requestLoop>>
                     ELSE /\ sentDeletes' = sentDeletes + 1
                          /\ requestLoop' = [pc |-> "select", op |-> op,
                                             i |-> sentDeletes + 1]
                          /\ UNCHANGED <<loopX, sentPuts>>
                ELSE IF op = put
                THEN /\ sentPuts' = sentPuts + 1
                     /\ requestLoop' = [pc |-> "select", op |-> op,
                                        i |-> sentPuts + 1]
                     /\ UNCHANGED <<loopX, sentDeletes>>
                ELSE IF Gated(op)
                     THEN /\ loopX' = loopX + 1
                          /\ UNCHANGED <<sentDeletes, sentPuts, requestLoop>>
                     ELSE /\ requestLoop' =
                               [pc |-> "select", op |-> op,
                                i |-> ReadIndex(rang)]
                          /\ UNCHANGED <<loopX, sentDeletes, sentPuts>>
    /\ UNCHANGED <<ratioRest, main, benchChan, closed, workers, completed,
                   failures, counters, sent, elapsed>>

\* select: case <-timespanTicker.C: break requestLoop; then
\* close(benchChan) and wg.Wait().
RatioBreak ==
    /\ Alive
    /\ main = "Running" /\ requestLoop.pc = "select"
    /\ elapsed
    /\ requestLoop' = [requestLoop EXCEPT !.pc = "done"]
    /\ closed' = TRUE
    /\ main' = "Wait"
    /\ UNCHANGED <<ratioRest, exited, benchChan, workers, completed, failures,
                   counters, sent, loopX, sentDeletes, sentPuts, elapsed>>

\* select: case <-updateTicker.C: the progress line (csvotw is nil here).
RatioTick ==
    /\ Alive
    /\ main = "Running" /\ requestLoop.pc = "select"
    /\ UNCHANGED vars

\* select: case benchChan <- i<<4 | op: waiting = false; then x++.
RatioSend ==
    /\ Alive
    /\ main = "Running" /\ requestLoop.pc = "select"
    /\ Len(benchChan) < concurrency
    /\ benchChan' = Append(benchChan, Word(requestLoop.i, requestLoop.op))
    /\ sent' = [sent EXCEPT ![requestLoop.op] = @ + 1]
    /\ loopX' = loopX + 1
    /\ requestLoop' = [requestLoop EXCEPT !.pc = "pick"]
    /\ UNCHANGED <<ratioRest, exited, main, closed, workers, completed,
                   failures, counters, sentDeletes, sentPuts, elapsed>>

\* worker: i := <-benchChan; if i == 0 { break }; op := i & 0xf; i >>= 4;
\* the StorageClient call of kind op on object i starts.
RatioRecv ==
    /\ Alive
    /\ BagIn(Receiving, workers)
    /\ Len(benchChan) > 0 \/ closed
    /\ LET w == IF Len(benchChan) > 0 THEN Head(benchChan) ELSE 0 IN
       IF w = 0
       THEN /\ workers' = Replace(workers, Receiving, Gone)
            /\ UNCHANGED benchChan
       ELSE /\ workers' = Replace(workers, Receiving,
                            [pc |-> "call", i |-> WordIndex(w), ok |-> TRUE,
                             op |-> WordOp(w)])
            /\ benchChan' = Tail(benchChan)
    /\ UNCHANGED <<ratioRest, exited, main, closed, completed, failures,
                   counters, sent, loopX, sentDeletes, sentPuts, requestLoop,
                   elapsed>>

\* worker: the call returns; atomic.AddInt64(&<kind>s, 1); the status check
\* (csvw is nil here).
RatioReturn ==
    /\ Alive
    /\ \E w \in {v \in BagToSet(workers) : v.pc = "call"}, ok \in FixedStatuses :
         /\ workers' = Replace(workers, w, FixedCheck([w EXCEPT !.ok = ok]))
         /\ failures' = IF ok THEN failures ELSE failures + 1
         /\ counters' = [counters EXCEPT ![w.op] = @ + 1]
    /\ completed' = completed + 1
    /\ UNCHANGED <<ratioRest, exited, main, benchChan, closed, sent, loopX,
                   sentDeletes, sentPuts, requestLoop, elapsed>>

\* worker: fatalf(...): os.Exit(1)
RatioFatalf ==
    /\ Alive
    /\ BagIn(Fatal, workers)
    /\ exited' = TRUE
    /\ UNCHANGED <<ratioRest, main, benchChan, closed, workers, completed,
                   failures, counters, sent, loopX, sentDeletes, sentPuts,
                   requestLoop, elapsed>>

\* wg.Wait() returns and the totals are printed.
RatioReport ==
    /\ Alive
    /\ main = "Wait"
    /\ BagToSet(workers) = {Gone}
    /\ main' = "Reported"
    /\ UNCHANGED <<ratioRest, exited, benchChan, closed, workers, completed,
                   failures, counters, sent, loopX, sentDeletes, sentPuts,
                   requestLoop, elapsed>>

NextRatio ==
    \/ RatioTimeUp
    \/ RatioPick
    \/ RatioBreak
    \/ RatioTick
    \/ RatioSend
    \/ RatioRecv
    \/ RatioReturn
    \/ RatioFatalf
    \/ RatioReport

SpecRatio == InitRatio /\ [][NextRatio]_vars

\* ============================================== container provisioning ===
\* benchPut and benchMixed create the containers before they start a
\* goroutine: one PutContainer on container if containers == 1, else one on
\* each of container0 .. container(containers-1), one after the other.

\* A loop that leaves the last container out: for x := 0; x < containers-1.
ProvTotalShort == containers - 1

\* Number of PutContainer calls of the provisioning step.
ProvTotal == IF containers = 1 THEN 1 ELSE containers

\* The container of the x-th PutContainer call.
ProvName(x) == IF containers = 1 THEN container ELSE container \o Decimal(x)

\* The driver function is in its provisioning step, or on its way from
\* there to cliFatalf.
InProvisioning == main \in {"Provisioning", "ProvFatal"}

\* benchPut or benchMixed when no PutContainer has been sent yet; nothing of
\* the benchmark proper exists.  benchMixed is followed at concurrency 1.
InitProvision ==
    /\ bench \in {"benchPut", "benchMixed"}
    /\ count \in (IF bench = "benchPut" THEN 1..MaxCount ELSE {0})
    /\ iterations = (IF bench = "benchPut" THEN 1 ELSE 0)
    /\ concurrency \in (IF bench = "benchPut" THEN 1..MaxConcurrency ELSE {1})
    /\ continueOnError \in BOOLEAN
    /\ csv = FALSE
    /\ csvot = FALSE
    /\ size = 0
    /\ maxsize = 0
    /\ \E flag \in 0..MaxContainers : containers = NormContainers(flag)
    /\ ProvUnused
    /\ DownloadUnused
    /\ cleanup = NoCleanup
    /\ runElapsed = 0
    /\ margin = DeleteMargin
    /\ RatioUnused
    /\ main = "Provisioning"
    /\ exited = FALSE
    /\ csvlk = FALSE
    /\ csvw = EmptyBag
    /\ csvotw = <<>>
    /\ benchChan = <<>>
    /\ closed = FALSE
    /\ workers = EmptyBag
    /\ loopI = 0
    /\ iteration = 0
    /\ lastSoFar = 0
    /\ calls = <<>>
    /\ completed = 0
    /\ failures = 0
    /\ doneChan = FALSE
    /\ chans = <<>>
    /\ counters = <<>>
    /\ lastCounters = <<>>
    /\ pools = <<>>
    /\ producers = <<>>
    /\ sent = <<>>
    /\ reporter = "none"

\* What the steps of provisioning leave alone.
provRest == <<config, fixedVars, mixedVars, ratioVars, downloadVars, cleanup, runElapsed, csvlk, csvw,
             csvotw>>

\* resp := c.PutContainer(putContainer, ...): the call is sent.
ProvisionCall ==
    /\ Alive
    /\ main = "Provisioning"
    /\ ~provCall
    /\ provX < ProvTotal
    /\ provCall' = TRUE
    /\ UNCHANGED <<provRest, exited, main, provX, provFailures>>

\* A status check that does not look at -continue-on-error.
ProvCheckAlwaysFatal(ok) == IF ~ok THEN "ProvFatal" ELSE "Provisioning"

\* if resp.StatusCode/100 != 2: with -continue-on-error the failure is
\* logged and the loop goes on (continue), else cli.fatalf.
ProvCheck(ok) ==
    IF ~ok /\ ~continueOnError THEN "ProvFatal" ELSE "Provisioning"

\* The PutContainer call returns with some status; x++.
ProvisionReturn ==
    /\ Alive
    /\ main = "Provisioning"
    /\ provCall
    /\ \E ok \in BOOLEAN :
         /\ main' = ProvCheck(ok)
         /\ provFailures' = IF ok THEN provFailures ELSE provFailures + 1
         /\ provX' = IF main' = "Provisioning" THEN provX + 1 ELSE provX
    /\ provCall' = FALSE
    /\ UNCHANGED <<provRest, exited>>

\* cli.fatalf(...) -> cliFatalf: os.Exit(1)
ProvisionFatalf ==
    /\ Alive
    /\ main = "ProvFatal"
    /\ exited' = TRUE
    /\ UNCHANGED <<provRest, main, provVars>>

\* The loop is over: the channels are made and the goroutines started.
ProvisionDone ==
    /\ Alive
    /\ main = "Provisioning"
    /\ ~provCall
    /\ provX >= ProvTotal
    /\ IF bench = "benchMixed"
       THEN /\ main' = "Wait"
            /\ chans' = [k \in Kinds |-> <<>>]
            /\ counters' = [k \in Kinds |-> 0]
            /\ lastCounters' = [k \in Kinds |-> 0]
            /\ pools' = [k \in Kinds |-> Copies(concurrency, Idle)]
            /\ producers' = [k \in Kinds |->
                               [pc |-> IF k = "PUT" THEN "select" ELSE "top",
                                i |-> 0, lo |-> 0]]
            /\ sent' = [k \in Kinds |-> 0]
            /\ reporter' = "select"
            /\ UNCHANGED <<workers, loopI, calls>>
       ELSE /\ main' = "Running"
            /\ workers' = Copies(concurrency, Receiving)
            /\ loopI' = 1
            /\ calls' = [n \in 0..(count - 1) |-> 0]
            /\ UNCHANGED <<chans, counters, lastCounters, pools, producers,
                           sent, reporter>>
    /\ UNCHANGED <<config, fixedConfig, provVars, downloadVars, cleanup, ratioVars, runElapsed, exited, csvlk,
                   csvw, csvotw, benchChan, closed, iteration, lastSoFar,
                   completed, failures, doneChan>>

NextProvision ==
    \/ ProvisionCall
    \/ ProvisionReturn
    \/ ProvisionFatalf
    \/ ProvisionDone
    \/ ~InProvisioning /\ bench = "benchMixed" /\ NextMixed
    \/ ~InProvisioning /\ bench = "benchPut" /\ NextFixed

SpecProvision == InitProvision /\ [][NextProvision]_vars

\* ============================================================ final rate ==
\* The divisor of the rate a fixed-count driver prints at its end:
\* float64(elapsed/time.Second), the division being that of two
\* time.Duration values, which are integers.
RateDivisor == GoDiv(runElapsed, Second)

\* ======================================================= all the drivers ==
\* A run of any of the six benchmark drivers.
InitDrivers == InitFixed \/ InitMixed

NextDrivers ==
    \/ bench = "benchMixed" /\ NextMixed
    \/ bench \in Drivers /\ NextFixed

SpecDrivers == InitDrivers /\ [][NextDrivers]_vars

\* A run of any of the six drivers with -csv.
InitDriversCsv == (InitFixed /\ csv) \/ InitMixedCsv

NextDriversCsv ==
    \/ bench = "benchMixed" /\ NextMixedCsv
    \/ bench \in Drivers /\ NextFixed

SpecDriversCsv == InitDriversCsv /\ [][NextDriversCsv]_vars


\* ================================================== claims: benchMixed ===

\* A step in which the producer of kind k sends a task.
Dispatch(k) == sent'[k] = sent[k] + 1
\* The index that the producer of kind k sends in such a step.
Dispatched(k) == producers[k].i
\* A step in which a worker of kind k starts a StorageClient call.
Starts(k) == Len(chans'[k]) < Len(chans[k])

\* C1: whenever a worker is executing a DELETE or a GET (HEAD, POST) on
\* object index i, the PUT of index i has returned.
C1_PutReturnedBeforeUse ==
    \A k \in {"DELETE", "GET"} : \A w \in InCall(k) : w.i \in PutReturned

\* C2: every index the DELETE producer dispatches is below the completed-PUT
\* counter at the moment of the dispatch.
C2_DeleteBelowPuts ==
    [][Dispatch("DELETE") => Dispatched("DELETE") < counters["PUT"]]_vars

\* C2 witness: with two workers per pool, a DELETE has been dispatched while
\* the completed-PUT counter was exactly the margin ahead of it.
C2_Witness ==
    /\ concurrency = 2
    /\ sent["DELETE"] = 1
    /\ counters["PUT"] = DeleteMargin

\* C3: every index the GET (HEAD, POST) producer dispatches satisfies
\* deletes <= i < puts with the counter values of the moment its send
\* succeeds.
C3_ReadInsideWindowAtSend ==
    [][Dispatch("GET") =>
          /\ counters["DELETE"] <= Dispatched("GET")
          /\ Dispatched("GET") < counters["PUT"]]_vars

\* C7: once doneChan is closed, no producer dispatches a task and no worker
\* starts an operation.
C7_NothingNewAfterDone ==
    [][doneChan => \A k \in Kinds : ~Dispatch(k) /\ ~Starts(k)]_vars
\* C6: once doneChan is closed, every producer, every worker and the
\* reporter exit and wg.Wait() returns (or cliFatalf has ended the process).
C6_MixedTerminates == doneChan ~> (main = "Reported" \/ exited)

\* C6 witness: the run was reported although, with the PUT producer stopped
\* early, the DELETE producer never got past its poll.
C6_Witness ==
    /\ main = "Reported"
    /\ sent["DELETE"] = 0
    /\ counters["PUT"] < DeleteMargin

\* Number of workers of kind k inside a StorageClient call.
InFlight(k) == BagCardinality([w \in InCall(k) |-> CopiesIn(w, pools[k])])
\* Number of StorageClient calls of kind k that have returned: the tasks
\* sent that are neither queued nor inside a call.
Returned(k) == sent[k] - Len(chans[k]) - InFlight(k)

\* C11: each counter equals the number of calls of its kind that have
\* returned and is at most the number of tasks of its kind dispatched; it
\* never decreases, no dispatch changes it, and a step changes it by one.
C11_CountersCountReturns ==
    /\ [](\A k \in Kinds : /\ counters[k] = Returned(k)
                           /\ counters[k] <= sent[k])
    /\ [][\A k \in Kinds :
            /\ counters'[k] \in {counters[k], counters[k] + 1}
            /\ Dispatch(k) => counters' = counters]_vars

\* C11 witness: PUTs and a DELETE have returned while a PUT is in its call
\* and another task is dispatched and not yet returned.
C11_Witness ==
    /\ counters["DELETE"] = 1
    /\ counters["PUT"] > 1
    /\ InFlight("PUT") > 0
    /\ sent["PUT"] > counters["PUT"] + 1

\* Number of StorageClient calls in progress in all the pools.
TotalInFlight == InFlight("DELETE") + InFlight("GET") + InFlight("PUT")

\* C17: at most concurrency operations of one kind are in flight, and in
\* total at most concurrency times the number of pools (five in the
\* program, of which three are followed here).
C17_PerKindConcurrency ==
    /\ \A k \in Kinds : InFlight(k) <= concurrency
    /\ TotalInFlight <= Cardinality(Kinds) * concurrency

\* C17 witness: at concurrency 1 a PUT and a DELETE are in flight together.
C17_Witness ==
    /\ concurrency = 1
    /\ InFlight("PUT") = 1
    /\ InFlight("DELETE") = 1

\* StorageClient calls of kind k that workers have started.
Started(k) == sent[k] - Len(chans[k])

\* No goroutine of benchMixed is left to run.
NoGoroutineLeft ==
    /\ \A k \in Kinds : \A w \in BagToSet(pools[k]) : w.pc = "exited"
    /\ \A k \in Kinds : producers[k].pc = "exited"
    /\ reporter = "exited"

\* C24: when benchMixed reads the counters for its totals no goroutine is
\* left, every call that was started has returned and was counted, and
\* from then on no counter and no last-snapshot variable changes.
C24_FinalTotals ==
    /\ [](main = "Reported" =>
            /\ NoGoroutineLeft
            /\ \A k \in Kinds : InCall(k) = {} /\ counters[k] = Started(k))
    /\ [][main' = "Reported" =>
            /\ NoGoroutineLeft
            /\ UNCHANGED <<counters, lastCounters>>]_vars

\* C24 witness: totals are reported after a tick row, with PUTs and a DELETE
\* counted and a task left in a channel that no worker started.
C24_Witness ==
    /\ main = "Reported"
    /\ csvot
    /\ Len(csvotw) = 3
    /\ counters["PUT"] >= 2
    /\ counters["DELETE"] >= 1
    /\ \E k \in Kinds : Len(chans[k]) > 0

\* The sum of the deltas of kind k in the first n rows of the -csvot file.
RECURSIVE SumDeltas(_, _)
SumDeltas(k, n) == IF n = 0 THEN 0 ELSE csvotw[n][k] + SumDeltas(k, n - 1)

\* C25: with -csvot no delta written is negative, the deltas of each kind
\* add up to the last snapshot, and after the final row to the final count.
C25_DeltasSumToTotals ==
    csvot =>
        /\ \A n \in 1..Len(csvotw) : \A k \in Kinds : csvotw[n][k] >= 0
        /\ \A k \in Kinds :
              SumDeltas(k, Len(csvotw)) =
                  IF main = "Reported" THEN counters[k] ELSE lastCounters[k]

\* C25 witness: a tick row and the final row both carry PUTs.
C25_Witness ==
    /\ main = "Reported"
    /\ csvot
    /\ Len(csvotw) = 3
    /\ csvotw[2]["PUT"] > 0
    /\ csvotw[3]["PUT"] > 0
    /\ counters["PUT"] = csvotw[2]["PUT"] + csvotw[3]["PUT"]


\* The fixed-count run is drained: wg.Wait() has returned.
Drained == main = "Reported"
\* Number of tasks the producer of a fixed-count driver has sent.
FixedDispatched == iteration * count + loopI - 1
\* A step in which a fixed-count worker starts a StorageClient call.
FixedStarts == \E n \in DOMAIN calls : calls'[n] = calls[n] + 1
\* The CSV rows written for object n.
Rows(n) == CopiesIn([object |-> n], csvw)

\* C4: with no failing response no index is executed more often than once
\* per iteration, and when the run is drained every index has been executed
\* once per iteration and completed operations number count * iterations.
C4_EachIndexOnce ==
    failures = 0 =>
        /\ \A n \in DOMAIN calls : calls[n] <= iterations
        /\ Drained => /\ \A n \in DOMAIN calls : calls[n] = iterations
                      /\ completed = count * iterations

\* C4 witness: a drained two-iteration benchGet run of more objects than
\* workers, two workers, no failure.
C4_Witness ==
    /\ Drained
    /\ failures = 0
    /\ bench = "benchGet"
    /\ iterations = 2
    /\ concurrency = 2
    /\ count > concurrency

\* C5: every fixed-count run ends: wg.Wait() returns, or cliFatalf ends the
\* process.
C5_FixedTerminates == <>(Drained \/ exited)

\* C5 witness: a one-worker benchPost run of more than one object is
\* drained.
C5_Witness ==
    /\ Drained
    /\ bench = "benchPost"
    /\ concurrency = 1
    /\ count > 1
    /\ completed = count

\* C8: without -continue-on-error, once a non-2xx response has been received
\* no worker starts a further StorageClient call.
C8_NoStartAfterFailure ==
    [][(~continueOnError /\ failures > 0) => ~FixedStarts]_vars

\* C9: with -continue-on-error a failing index is not executed again, the
\* worker that saw it is not stopped and the process is not ended, a drained
\* run has executed every index once per iteration, and the run is drained
\* eventually.
C9_LoggedAndSkipped ==
    /\ [](continueOnError =>
            /\ ~exited
            /\ ~BagIn(Fatal, workers)
            /\ \A n \in DOMAIN calls : calls[n] <= iterations
            /\ Drained => /\ \A n \in DOMAIN calls : calls[n] = iterations
                          /\ completed = count * iterations)
    /\ (continueOnError ~> Drained)

\* C9 witness: a drained two-worker benchPut run in which calls failed and
\* more calls followed the first failure.
C9_Witness ==
    /\ Drained
    /\ continueOnError
    /\ bench = "benchPut"
    /\ concurrency = 2
    /\ failures > 1
    /\ completed = count
    /\ count > failures

\* C10: with -csv and only 2xx responses, no task has more rows than
\* executions, and a drained run has one row per index and iteration.
C10_OneRecordPerTask ==
    (csv /\ failures = 0) =>
        /\ \A n \in DOMAIN calls : Rows(n) <= calls[n]
        /\ Drained => \A n \in DOMAIN calls : Rows(n) = iterations

\* C10 witness: a drained two-worker, two-iteration benchGet run with -csv
\* and no failure has written count * iterations rows.
C10_Witness ==
    /\ Drained
    /\ csv
    /\ failures = 0
    /\ bench = "benchGet"
    /\ concurrency = 2
    /\ iterations = 2
    /\ count > 1
    /\ BagCardinality(csvw) = count * iterations

\* C20: with -csv and -continue-on-error a drained run of any fixed-count
\* driver has written one row for every execution of every index, whatever
\* the response was.
C20_RecordPerExecutedTask ==
    (csv /\ continueOnError /\ Drained) =>
        \A n \in DOMAIN calls : Rows(n) = calls[n]

\* The sum of the first n rows of the -csvot file of a fixed-count driver.
RECURSIVE SumSamples(_)
SumSamples(n) == IF n = 0 THEN 0 ELSE csvotw[n] + SumSamples(n - 1)

\* C26: with -csvot the samples written so far add up to lastSoFar, and
\* with the final sample to count * iterations.
C26_SamplesSumToCount ==
    csvot =>
        SumSamples(Len(csvotw)) =
            IF Drained THEN count * iterations ELSE lastSoFar

\* C26 witness: a drained two-worker run whose tick sample was not zero.
C26_Witness ==
    /\ Drained
    /\ csvot
    /\ concurrency = 2
    /\ Len(csvotw) = 3
    /\ csvotw[2] # 0
    /\ csvotw[2] + csvotw[3] = count * iterations

\* C27: the divisor of the final rate of a completed run is greater than 0.
C27_RateDivisorPositive == Drained => RateDivisor > 0

\* C13: a worker has exited only if benchChan is closed and empty; when
\* wg.Wait() has returned benchChan is closed and empty, all concurrency
\* workers have exited, so none is in a call, and every task sent has been
\* executed.
C13_DrainedState ==
    /\ BagIn(Gone, workers) => closed /\ benchChan = <<>>
    /\ Drained => /\ closed /\ benchChan = <<>>
                  /\ CopiesIn(Gone, workers) = concurrency
                  /\ FixedDispatched = count * iterations
                  /\ completed = FixedDispatched

\* C13 witness: a drained two-worker run of one task, some of whose workers
\* never received a task, and with a failing response.
C13_Witness ==
    /\ Drained
    /\ concurrency = 2
    /\ count = 1
    /\ failures > 0

\* C16: benchGet of package main sends iterations * count tasks, no more,
\* and a drained run has executed that many: the total it announces and
\* divides by.
C16_MainGetTotal ==
    /\ FixedDispatched <= iterations * count
    /\ Drained /\ failures = 0 => completed = iterations * count

\* The calls a step starts: the workers that are in a call after the step
\* and were not before.
NewCalls ==
    {w \in BagToSet(workers') :
        w.pc = "call" /\ CopiesIn(w, workers') > CopiesIn(w, workers)}

\* C18 as stated: the worker that receives task i operates on the object
\* prefix + i, in the container suffixed with i mod containers.
C18_NamesOfTaskIndex ==
    [][FixedStarts =>
         \A w \in NewCalls :
            LET task == Head(benchChan) IN
            /\ OpObject(w.i) = object \o Decimal(task)
            /\ OpContainer(w.i) =
                 IF containers > 1 THEN container \o Decimal(task % containers)
                                   ELSE container]_vars

\* C18 amended: the worker that receives task i operates on the object
\* prefix + (i - 1), in the container suffixed with (i - 1) mod containers
\* when containers > 1 and in the base container otherwise.
C18_NamesOfDecrementedIndex ==
    [][FixedStarts =>
         \A w \in NewCalls :
            LET task == Head(benchChan) IN
            /\ OpObject(w.i) = object \o Decimal(task - 1)
            /\ OpContainer(w.i) =
                 IF containers > 1
                 THEN container \o Decimal((task - 1) % containers)
                 ELSE container]_vars

\* C18 witness: with two containers the task 3 has been received and its
\* call on object 2 started.
C18_Witness ==
    /\ containers = 2
    /\ \E w \in BagToSet(workers) : w.pc = "call" /\ w.i = 2
    /\ calls[2] = 1

\* The names prefix0 .. prefix(count-1), object n in container n mod
\* containers, that -count and -containers stand for.
NamesOfRun ==
    {<<IF containers > 1 THEN container \o Decimal(n % containers) ELSE container,
       object \o Decimal(n)>> : n \in 0..(count - 1)}

\* C19: a drained run of any of the five drivers has operated on exactly the
\* names that -count and -containers stand for, so bench-put writes the
\* names the other four then access; and every name benchPut operates on is
\* in a container that its provisioning sent a PutContainer for.
C19_SameNames ==
    /\ Accessed \subseteq NamesOfRun
    /\ Drained => Accessed = NamesOfRun
    /\ bench = "benchPut" => \A t \in Accessed : t[1] \in Provisioned

\* C19 witness: a drained benchPut run of three objects over two containers.
C19_Witness ==
    /\ Drained
    /\ bench = "benchPut"
    /\ containers = 2
    /\ count = 3
    /\ Cardinality(Accessed) = 3

\* ============================================== claims: all the drivers ===

\* Tasks dispatched whose call has not returned: of pool k of benchMixed,
\* or of the one pool of a fixed-count driver.
Outstanding(k) ==
    IF bench = "benchMixed" THEN sent[k] - counters[k]
                            ELSE FixedDispatched - completed

\* C12: in every pool the tasks dispatched and not finished number at most
\* 2 * concurrency, at most concurrency of them in the task channel.
C12_Backpressure ==
    \A k \in Kinds :
        /\ Outstanding(k) <= 2 * concurrency
        /\ IF bench = "benchMixed" THEN Len(chans[k]) <= concurrency
                                   ELSE Len(benchChan) <= concurrency

\* C12 witness: a two-worker benchGet producer with tasks left to send is
\* blocked on a full channel with four tasks outstanding.
C12_Witness ==
    /\ bench = "benchGet"
    /\ concurrency = 2
    /\ Looping
    /\ Len(benchChan) = concurrency
    /\ FixedDispatched - completed = 2 * concurrency
    /\ ~ENABLED FixedSend

\* Number of worker goroutines between csvlk.Lock() and csvlk.Unlock().
Writers ==
    IF bench = "benchMixed"
    THEN LET n(k) == BagCardinality([w \in {v \in BagToSet(pools[k]) : v.pc = "write"}
                                        |-> pools[k][w]])
         IN n("DELETE") + n("GET") + n("PUT")
    ELSE BagCardinality([w \in {v \in BagToSet(workers) : v.pc = "write"}
                            |-> workers[w]])
\* Some worker goroutine is blocked in csvlk.Lock().
LockWaiters(bag) == \E w \in BagToSet(bag) : w.pc = "lock"

\* C21: at most one worker is between the Lock and the Unlock around the
\* write and flush of a row, in the fixed-count drivers and over all pools
\* of benchMixed; csvlk is held exactly while there is one.
C21_OneWriter ==
    /\ Writers <= 1
    /\ csvlk <=> Writers = 1

\* C21 witness: in benchMixed a PUT worker writes its row while a DELETE
\* worker waits for csvlk.
C21_Witness ==
    /\ bench = "benchMixed"
    /\ csvlk
    /\ \E w \in BagToSet(pools["PUT"]) : w.pc = "write"
    /\ LockWaiters(pools["DELETE"])

\* ================================================= claims: provisioning ===

\* No worker goroutine exists and no channel holds a task.
NothingStarted ==
    /\ workers = EmptyBag
    /\ pools = <<>>
    /\ benchChan = <<>>
    /\ chans = <<>>
    /\ calls = <<>>
    /\ sent = <<>>

\* Some worker is executing a StorageClient call on an object.
ObjectCallUnderWay ==
    IF bench = "benchMixed"
    THEN \E k \in Kinds : InCall(k) # {}
    ELSE \E w \in BagToSet(workers) : w.pc = "call"

\* C22: during provisioning nothing of the benchmark proper has started, and
\* once anything has, a PutContainer has been sent and has returned for each
\* of the containers.
C22_ProvisioningPrecedesRunning ==
    /\ InProvisioning => NothingStarted
    /\ ~InProvisioning => /\ provX = containers
                          /\ ~provCall
                          /\ {ProvName(x) : x \in 0..(provX - 1)} = Provisioned

\* C22 witness: benchMixed over two containers has a worker in a call.
C22_Witness ==
    /\ bench = "benchMixed"
    /\ containers = 2
    /\ provX = 2
    /\ ~InProvisioning
    /\ ObjectCallUnderWay

\* C23: without -continue-on-error a run with a failed PutContainer starts
\* nothing and can only go on to cliFatalf; with -continue-on-error no
\* PutContainer failure ends the run, provisioning can always take its next
\* step, and the benchmark starts only after every container was attempted.
C23_ProvisioningErrorPolicy ==
    /\ (~continueOnError /\ provFailures > 0) =>
          /\ main = "ProvFatal"
          /\ NothingStarted
          /\ provFailures = 1
          /\ exited \/ ENABLED ProvisionFatalf
    /\ continueOnError =>
          /\ main # "ProvFatal"
          /\ ~exited
          /\ main = "Provisioning" =>
                ENABLED (ProvisionCall \/ ProvisionReturn \/ ProvisionDone)
          /\ ~InProvisioning => provX = containers

\* C23 witness: with -continue-on-error both PutContainer calls of a run
\* over two containers failed and a worker of benchPut is in a call.
C23_Witness ==
    /\ bench = "benchPut"
    /\ continueOnError
    /\ containers = 2
    /\ provFailures = 2
    /\ ~InProvisioning
    /\ ObjectCallUnderWay

\* ===================================================== claims: benchPut ===

\* The body lengths of the PutObject calls in progress.
BodyLengths == {w.sz : w \in {v \in BagToSet(workers) : v.pc = "call"}}

\* C14: every body length lies in [size, maxsize) when maxsize > size and
\* is size otherwise.
C14_BodyLength ==
    \A n \in BodyLengths :
        IF maxsize > size THEN size <= n /\ n < maxsize ELSE n = size

\* C14 witness: with maxsize two above size, two PutObject calls in progress
\* whose bodies have the two possible lengths.
C14_Witness ==
    /\ maxsize = size + 2
    /\ BodyLengths = {size, size + 1}

\* ================================= claims: benchMixed, ratio-interleaved ===

\* The kinds of the tasks that are queued in benchChan or inside a call.
OpsUnderWay ==
    {WordOp(benchChan[n]) : n \in 1..Len(benchChan)}
        \cup {w.op : w \in {v \in BagToSet(workers) : v.pc = "call"}}

\* C15: a kind whose weight in -ratios is 0 is never chosen, sent, executed
\* or counted.
C15_ZeroWeightNeverDispatched ==
    \A op \in Ops :
        ratios[op] = 0 =>
            /\ counters[op] = 0
            /\ sent[op] = 0
            /\ op \notin OpsUnderWay
            /\ requestLoop.pc = "select" => requestLoop.op # op

\* C15 witness: with -ratios 1,0,0,0,1 DELETEs and PUTs have completed.
C15_Witness ==
    /\ ratios = [op \in Ops |-> IF op \in {delet, put} THEN 1 ELSE 0]
    /\ counters[delet] > 0
    /\ counters[put] > PutFloor

\* A step in which the request loop sends a task of kind op.
RatioDispatch(op) == sent'[op] = sent[op] + 1
\* A step in which the switch of the request loop chooses an index for a
\* task of kind op.
RatioChoose(op) ==
    /\ requestLoop.pc = "pick"
    /\ requestLoop'.pc = "select"
    /\ requestLoop'.op = op

\* C28: the index of a DELETE that is sent is at most the number of PUTs
\* completed at that time.
C28_DeleteWithinPuts ==
    [][RatioDispatch(delet) => requestLoop.i <= counters[put]]_vars

\* The request loop is at its top, every kind of opOrder is gated, and no
\* PUT is chosen, queued or in a call whose completion could open a gate:
\* each x from here on ends in continue.
Spinning ==
    /\ main = "Running"
    /\ ~exited
    /\ requestLoop.pc = "pick"
    /\ opOrder # <<>>
    /\ \A n \in DOMAIN opOrder : Gated(opOrder[n])
    /\ sent[put] = counters[put]

\* C29: once the time span has elapsed the request loop is not in a state
\* in which it only goes round without ever reaching its select.
C29_LoopReachesSelect == ~(elapsed /\ Spinning)

\* C30: no DELETE, GET, HEAD or POST is sent before PutFloor PUTs have
\* completed, and an index chosen for a GET, HEAD or POST lies strictly
\* between sentDeletes and the number of completed PUTs.
C30_GatesAndReadRange ==
    /\ [][\A op \in Ops \ {put} :
            RatioDispatch(op) => counters[put] >= PutFloor]_vars
    /\ [][\A op \in Ops \ {delet, put} :
            RatioChoose(op) => /\ sentDeletes < requestLoop'.i
                               /\ requestLoop'.i < counters[put]]_vars

\* C30 witness: an index has been chosen for a GET after DELETEs were sent.
C30_Witness ==
    /\ requestLoop.pc = "select"
    /\ requestLoop.op = 1
    /\ sentDeletes >= 1
    /\ sentDeletes < requestLoop.i
    /\ requestLoop.i < counters[put]

\* C31: the request loop is only entered with an operation sequence of at
\* least one entry: a -ratios value that got past the two checks of the
\* parsing loop never leaves opOrder empty.
C31_OpOrderNonEmpty == main = "Running" => Len(opOrder) >= 1

\* ============================ claims: benchMixed, the producers' indices ===

\* C32: the PUT producer and the DELETE producer each dispatch the indices
\* 0, 1, 2, ... in order: the n-th task a producer puts on its channel
\* carries index n-1, and the producer's index moves only with a dispatch,
\* by one, however often the DELETE producer polls.
C32_IndicesInOrder ==
    /\ [][\A k \in {"PUT", "DELETE"} :
            Dispatch(k) => /\ Dispatched(k) = sent[k]
                           /\ chans'[k] = Append(chans[k], sent[k])
                           /\ producers'[k].i = sent[k] + 1]_vars
    /\ [][\A k \in {"PUT", "DELETE"} :
            producers'[k].i # producers[k].i => Dispatch(k)]_vars

\* C32 witness: the DELETE producer, which had to poll before its first
\* dispatch, has put index 1 on its channel as its second task while the
\* PUT producer has dispatched its fourth.
C32_Witness ==
    /\ sent["DELETE"] = 2
    /\ chans["DELETE"] # <<>>
    /\ chans["DELETE"][Len(chans["DELETE"])] = 1
    /\ sent["PUT"] >= 4


\* A step in which the GET (HEAD, POST) producer reads deletes and computes
\* lo.
ReadsLo(k) == producers[k].pc = "top" /\ producers'[k].pc = "hi"

\* C33: the indices dispatched for DELETE are never more than the completed
\* DELETEs plus 2 * concurrency, and when the GET (HEAD, POST) producer
\* computes lo every index dispatched for DELETE so far is strictly below
\* lo.
C33_DeletesBelowLo ==
    /\ [](sent["DELETE"] <= counters["DELETE"] + 2 * concurrency)
    /\ [][ReadsLo("GET") =>
            \A i \in 0..(sent["DELETE"] - 1) : i < producers'["GET"].lo]_vars

\* C33 witness: the GET producer has just computed lo while the DELETE
\* producer was as far ahead of the completed DELETEs as it can get, with
\* one DELETE queued, one in its call and none completed.
C33_Witness ==
    /\ producers["GET"].pc = "hi"
    /\ sent["DELETE"] = counters["DELETE"] + 2 * concurrency
    /\ producers["GET"].lo = sent["DELETE"]
    /\ Len(chans["DELETE"]) = concurrency


\* The GET (HEAD, POST) window of the current counter values is not empty.
WindowOpen ==
    counters["DELETE"] + concurrency * 2 <= counters["PUT"] - concurrency * 2

\* A step in which the GET (HEAD, POST) producer finds i > hi and goes to
\* its poll.
ReadPolls(k) == producers[k].pc = "hi" /\ producers'[k].pc = "poll"

\* C34: with a margin above 4 * concurrency the GET (HEAD, POST) window is
\* not empty in any state in which 4 * concurrency PUTs have completed, the
\* producer does not go to its poll from such a state, and unless the run
\* is done or has exited the producer dispatches.
C34_WindowOpens ==
    /\ [](margin > 4 * concurrency /\ counters["PUT"] >= 4 * concurrency
            => WindowOpen)
    /\ [][margin > 4 * concurrency /\ ReadPolls("GET")
            => counters["PUT"] < 4 * concurrency]_vars
    /\ (margin > 4 * concurrency /\ counters["PUT"] >= 4 * concurrency)
         ~> (sent["GET"] > 0 \/ doneChan \/ exited)

\* C34 witness: the GET producer has dispatched the one index of a window
\* that a completed DELETE and five completed PUTs leave it.
C34_Witness ==
    /\ margin > 4 * concurrency
    /\ counters["DELETE"] = 1
    /\ counters["PUT"] = 5
    /\ sent["GET"] = 1
    /\ producers["GET"].i = 4
    /\ ~doneChan

\* ================================================================ download
\* download (cli.go:2115-2275): concurrency worker goroutines receive tasks
\* from downloadChan; a task with an empty object is the listing of a
\* container, whose worker queues one object task per entry; download()
\* itself queues the first tasks, waits on containerWG, closes the queue
\* and waits for the workers.

\* if concurrency < 2 { concurrency = 2 }
NormDownload(c) == IF c < 2 THEN 2 ELSE c

\* make(chan *downloadTask, concurrency-1)
DownloadCap == concurrency - 1

\* The directories filepath.Dir(task.destpath) of the object tasks.
Dirs == {".", "a", "b"}

ContainerTask == [object |-> FALSE, dir |-> "."]
ObjectTask(d) == [object |-> TRUE, dir |-> d]

\* A worker before its receive, and one that has left its loop.
Receiver == [pc |-> "recv", dir |-> ".", left |-> 0]
Left == [pc |-> "done", dir |-> ".", left |-> 0]

\* The state of download once its workers are started: it was asked for an
\* object, a container or, with -a, the account.
InitDownload ==
    /\ bench = "download"
    /\ \E c \in 1..MaxConcurrency : concurrency = NormDownload(c)
    /\ continueOnError \in BOOLEAN
    /\ csv = FALSE
    /\ csvot = FALSE
    /\ size = 0
    /\ maxsize = 0
    /\ containers = 1
    /\ margin = DeleteMargin
    /\ ProvUnused
    /\ RatioUnused
    /\ cleanup = NoCleanup
    /\ runElapsed = 0
    /\ exited = FALSE
    /\ csvlk = FALSE
    /\ csvw = EmptyBag
    /\ csvotw = <<>>
    /\ count = 0
    /\ iterations = 0
    /\ benchChan = <<>>
    /\ closed = FALSE
    /\ workers = EmptyBag
    /\ loopI = 0
    /\ iteration = 0
    /\ lastSoFar = 0
    /\ calls = <<>>
    /\ completed = 0
    /\ failures = 0
    /\ doneChan = FALSE
    /\ chans = <<>>
    /\ counters = <<>>
    /\ lastCounters = <<>>
    /\ pools = <<>>
    /\ producers = <<>>
    /\ sent = <<>>
    /\ reporter = "none"
    /\ downloadChan = <<>>
    /\ downloadClosed = FALSE
    /\ downloadWorkers = [w \in 1..concurrency |-> Receiver]
    /\ containerWG = 0
    /\ dirExists = {}
    /\ dirExistsLock = 0
    /\ mkdirs = [d \in Dirs |-> 0]
    /\ producer \in {[mode |-> "object", left |-> 1],
                     [mode |-> "container", left |-> 1],
                     [mode |-> "account", left |-> 0]}
    /\ enqueued = 0
    /\ received = 0
    /\ main = "Begin"

\* What the steps of download leave alone.
downloadRest == <<config, fixedVars, mixedVars, ratioVars, provVars, cleanup,
                  runElapsed, csvlk, csvw, csvotw>>

\* download(), an object or a container asked for: os.Stat(destpath), and
\* for a container containerWG.Add(1).
DownloadBegin ==
    /\ Alive
    /\ main = "Begin" /\ producer.mode # "account"
    /\ containerWG' = IF producer.mode = "container" THEN 1 ELSE 0
    /\ main' = "Send"
    /\ UNCHANGED <<downloadRest, exited, downloadChan, downloadClosed,
                   downloadWorkers, dirExists, dirExistsLock, mkdirs,
                   producer, enqueued, received>>

\* download(), the account asked for: c.GetAccount, fatal on a status that
\* is not 2xx, else one container task per entry.
DownloadAccount(ok, n) ==
    /\ Alive
    /\ main = "Begin" /\ producer.mode = "account"
    /\ IF ok
       THEN /\ producer' = [producer EXCEPT !.left = n]
            /\ main' = IF n = 0 THEN "ContainerWait" ELSE "Add"
       ELSE /\ main' = "Fatalf"
            /\ UNCHANGED producer
    /\ UNCHANGED <<downloadRest, exited, downloadChan, downloadClosed,
                   downloadWorkers, containerWG, dirExists, dirExistsLock,
                   mkdirs, enqueued, received>>

\* for _, entry := range entries { containerWG.Add(1); ...
DownloadAdd ==
    /\ Alive
    /\ main = "Add"
    /\ containerWG' = containerWG + 1
    /\ main' = "Send"
    /\ UNCHANGED <<downloadRest, exited, downloadChan, downloadClosed,
                   downloadWorkers, dirExists, dirExistsLock, mkdirs,
                   producer, enqueued, received>>

\* downloadChan <- &downloadTask{...} in download(): blocks while the queue
\* is full.
DownloadSend(d) ==
    /\ Alive
    /\ main = "Send"
    /\ Len(downloadChan) < DownloadCap
    /\ downloadChan' = Append(downloadChan,
                              IF producer.mode = "object" THEN ObjectTask(d)
                                                          ELSE ContainerTask)
    /\ enqueued' = IF producer.mode = "object" THEN enqueued + 1 ELSE enqueued
    /\ producer' = [producer EXCEPT !.left = @ - 1]
    /\ main' = IF producer.left > 1 THEN "Add" ELSE "ContainerWait"
    /\ UNCHANGED <<downloadRest, exited, downloadClosed, downloadWorkers,
                   containerWG, dirExists, dirExistsLock, mkdirs, received>>

\* containerWG.Wait()
DownloadContainerWait ==
    /\ Alive
    /\ main = "ContainerWait"
    /\ containerWG = 0
    /\ main' = "Close"
    /\ UNCHANGED <<downloadRest, exited, downloadVars>>

\* close(downloadChan)
DownloadClose ==
    /\ Alive
    /\ main = "Close"
    /\ downloadClosed' = TRUE
    /\ main' = "TaskWait"
    /\ UNCHANGED <<downloadRest, exited, downloadChan, downloadWorkers,
                   containerWG, dirExists, dirExistsLock, mkdirs, producer,
                   enqueued, received>>

\* taskWG.Wait(), and download returns.
DownloadTaskWait ==
    /\ Alive
    /\ main = "TaskWait"
    /\ \A w \in DOMAIN downloadWorkers : downloadWorkers[w] = Left
    /\ main' = "Returned"
    /\ UNCHANGED <<downloadRest, exited, downloadVars>>

\* cli.fatalf in download() or in a worker: the process exits.
DownloadFatalf ==
    /\ Alive
    /\ \/ main = "Fatalf"
       \/ \E w \in DOMAIN downloadWorkers : downloadWorkers[w].pc = "fatal"
    /\ exited' = TRUE
    /\ UNCHANGED <<downloadRest, main, downloadVars>>

\* worker: task := <-downloadChan; if task == nil { break }; a closed and
\* empty queue yields nil.
DownloadRecv(w) ==
    /\ Alive
    /\ downloadWorkers[w].pc = "recv"
    /\ IF downloadChan # <<>>
       THEN LET task == Head(downloadChan) IN
            /\ downloadChan' = Tail(downloadChan)
            /\ received' = IF task.object THEN received + 1 ELSE received
            /\ downloadWorkers' = [downloadWorkers EXCEPT ![w] =
                 [pc |-> IF ~task.object THEN "list"
                         ELSE IF task.dir = "." THEN "get" ELSE "lock",
                  dir |-> task.dir, left |-> 0]]
       ELSE /\ downloadClosed
            /\ downloadWorkers' = [downloadWorkers EXCEPT ![w] = Left]
            /\ UNCHANGED <<downloadChan, received>>
    /\ UNCHANGED <<downloadRest, exited, main, downloadClosed, containerWG,
                   dirExists, dirExistsLock, mkdirs, producer, enqueued>>

\* The listing answered with containerWG.Done() ahead of the loop that
\* queues the entries.
DownloadListDoneFirst(w, ok, n) ==
    /\ Alive
    /\ downloadWorkers[w].pc = "list"
    /\ containerWG' = containerWG - 1
    /\ downloadWorkers' = [downloadWorkers EXCEPT ![w] =
         IF ok THEN [pc |-> "enqueue", dir |-> ".", left |-> n]
         ELSE IF continueOnError THEN Receiver
         ELSE [pc |-> "fatal", dir |-> ".", left |-> 0]]
    /\ UNCHANGED <<downloadRest, exited, main, downloadChan, downloadClosed,
                   dirExists, dirExistsLock, mkdirs, producer, enqueued,
                   received>>

\* worker, a container task: c.GetContainer; on a status that is not 2xx
\* containerWG.Done() and continue or fatalf, else the entries to queue.
DownloadList(w, ok, n) ==
    /\ Alive
    /\ downloadWorkers[w].pc = "list"
    /\ containerWG' = IF ok THEN containerWG ELSE containerWG - 1
    /\ downloadWorkers' = [downloadWorkers EXCEPT ![w] =
         IF ok THEN [pc |-> "enqueue", dir |-> ".", left |-> n]
         ELSE IF continueOnError THEN Receiver
         ELSE [pc |-> "fatal", dir |-> ".", left |-> 0]]
    /\ UNCHANGED <<downloadRest, exited, main, downloadChan, downloadClosed,
                   dirExists, dirExistsLock, mkdirs, producer, enqueued,
                   received>>

\* worker: downloadChan <- &downloadTask{... object: entry.Name ...}, which
\* blocks while the queue is full and panics on a closed queue.
DownloadEnqueue(w, d) ==
    /\ Alive
    /\ downloadWorkers[w].pc = "enqueue"
    /\ downloadWorkers[w].left > 0
    /\ IF downloadClosed
       THEN /\ exited' = TRUE
            /\ UNCHANGED <<downloadChan, downloadWorkers, enqueued>>
       ELSE /\ Len(downloadChan) < DownloadCap
            /\ downloadChan' = Append(downloadChan, ObjectTask(d))
            /\ downloadWorkers' = [downloadWorkers EXCEPT ![w].left = @ - 1]
            /\ enqueued' = enqueued + 1
            /\ UNCHANGED exited
    /\ UNCHANGED <<downloadRest, main, downloadClosed, containerWG,
                   dirExists, dirExistsLock, mkdirs, producer, received>>

\* worker, after the last entry: containerWG.Done(); continue
DownloadListed(w) ==
    /\ Alive
    /\ downloadWorkers[w].pc = "enqueue"
    /\ downloadWorkers[w].left = 0
    /\ containerWG' = containerWG - 1
    /\ downloadWorkers' = [downloadWorkers EXCEPT ![w] = Receiver]
    /\ UNCHANGED <<downloadRest, exited, main, downloadChan, downloadClosed,
                   dirExists, dirExistsLock, mkdirs, producer, enqueued,
                   received>>

\* A lock that does not wait for its holder.
DirLockNoWait(w) ==
    /\ Alive
    /\ downloadWorkers[w].pc = "lock"
    /\ dirExistsLock' = w
    /\ downloadWorkers' = [downloadWorkers EXCEPT ![w].pc = "check"]
    /\ UNCHANGED <<downloadRest, exited, main, downloadChan, downloadClosed,
                   containerWG, dirExists, mkdirs, producer, enqueued,
                   received>>

\* worker, an object task outside ".": dirExistsLock.Lock()
DirLock(w) ==
    /\ Alive
    /\ downloadWorkers[w].pc = "lock"
    /\ dirExistsLock = 0
    /\ dirExistsLock' = w
    /\ downloadWorkers' = [downloadWorkers EXCEPT ![w].pc = "check"]
    /\ UNCHANGED <<downloadRest, exited, main, downloadChan, downloadClosed,
                   containerWG, dirExists, mkdirs, producer, enqueued,
                   received>>

\* if !dirExists[dstdr] { ...
DirCheck(w) ==
    /\ Alive
    /\ downloadWorkers[w].pc = "check"
    /\ downloadWorkers' = [downloadWorkers EXCEPT ![w].pc =
         IF downloadWorkers[w].dir \in dirExists THEN "unlock" ELSE "mkdir"]
    /\ UNCHANGED <<downloadRest, exited, main, downloadChan, downloadClosed,
                   containerWG, dirExists, dirExistsLock, mkdirs, producer,
                   enqueued, received>>

\* os.MkdirAll(dstdr, 0755): on an error a message or fatalf; then
\* dirExists[dstdr] = true
DirMake(w, ok) ==
    /\ Alive
    /\ downloadWorkers[w].pc = "mkdir"
    /\ mkdirs' = [mkdirs EXCEPT ![downloadWorkers[w].dir] = @ + 1]
    /\ IF ok \/ continueOnError
       THEN /\ dirExists' = dirExists \cup {downloadWorkers[w].dir}
            /\ downloadWorkers' = [downloadWorkers EXCEPT ![w].pc = "unlock"]
       ELSE /\ downloadWorkers' = [downloadWorkers EXCEPT ![w].pc = "fatal"]
            /\ UNCHANGED dirExists
    /\ UNCHANGED <<downloadRest, exited, main, downloadChan, downloadClosed,
                   containerWG, dirExistsLock, producer, enqueued, received>>

\* dirExistsLock.Unlock()
DirUnlock(w) ==
    /\ Alive
    /\ downloadWorkers[w].pc = "unlock"
    /\ dirExistsLock' = 0
    /\ downloadWorkers' = [downloadWorkers EXCEPT ![w].pc = "get"]
    /\ UNCHANGED <<downloadRest, exited, main, downloadChan, downloadClosed,
                   containerWG, dirExists, mkdirs, producer, enqueued,
                   received>>

\* os.Create, c.GetObject and io.Copy: on a failure continue or fatalf.
DownloadGet(w, ok) ==
    /\ Alive
    /\ downloadWorkers[w].pc = "get"
    /\ downloadWorkers' = [downloadWorkers EXCEPT ![w] =
         IF ok \/ continueOnError THEN Receiver
         ELSE [pc |-> "fatal", dir |-> ".", left |-> 0]]
    /\ UNCHANGED <<downloadRest, exited, main, downloadChan, downloadClosed,
                   containerWG, dirExists, dirExistsLock, mkdirs, producer,
                   enqueued, received>>

NextDownload ==
    \/ DownloadBegin
    \/ \E ok \in BOOLEAN, n \in 0..MaxAccount : DownloadAccount(ok, n)
    \/ DownloadAdd
    \/ \E d \in Dirs : DownloadSend(d)
    \/ DownloadContainerWait
    \/ DownloadClose
    \/ DownloadTaskWait
    \/ DownloadFatalf
    \/ \E w \in DOMAIN downloadWorkers : DownloadRecv(w)
    \/ \E w \in DOMAIN downloadWorkers, ok \in BOOLEAN, n \in 0..MaxEntries :
          DownloadList(w, ok, n)
    \/ \E w \in DOMAIN downloadWorkers, d \in Dirs : DownloadEnqueue(w, d)
    \/ \E w \in DOMAIN downloadWorkers : DownloadListed(w)
    \/ \E w \in DOMAIN downloadWorkers : DirLock(w)
    \/ \E w \in DOMAIN downloadWorkers : DirCheck(w)
    \/ \E w \in DOMAIN downloadWorkers, ok \in BOOLEAN : DirMake(w, ok)
    \/ \E w \in DOMAIN downloadWorkers : DirUnlock(w)
    \/ \E w \in DOMAIN downloadWorkers, ok \in BOOLEAN : DownloadGet(w, ok)

SpecDownload == InitDownload /\ [][NextDownload]_vars


\* ========================================================= claims: download

\* download() and every worker are at a send into the full queue: nothing
\* receives any more.
AllBlockedSending ==
    /\ ~exited
    /\ ~downloadClosed
    /\ main = "Send"
    /\ Len(downloadChan) = DownloadCap
    /\ \A w \in DOMAIN downloadWorkers :
          /\ downloadWorkers[w].pc = "enqueue"
          /\ downloadWorkers[w].left > 0

\* C35: download is never in the state in which download() and all of its
\* workers are blocked on a send into the full queue.
C35_NeverAllBlocked == ~AllBlockedSending


\* No container task is waiting to be queued, queued, being listed or
\* having its entries queued.
ListingsOver ==
    /\ main \notin {"Begin", "Add", "Send"}
    /\ \A n \in DOMAIN downloadChan : downloadChan[n].object
    /\ \A w \in DOMAIN downloadWorkers :
          downloadWorkers[w].pc \notin {"list", "enqueue"}

\* C36: the queue is closed only once every container task has finished
\* queuing its entries or has failed, nothing is sent into the queue after
\* the close, and a worker leaves its loop only when the queue is closed
\* and empty and every object task sent into it has been received.
C36_CloseAfterListings ==
    /\ [][~downloadClosed /\ downloadClosed' => ListingsOver]_vars
    /\ [](downloadClosed => ListingsOver)
    /\ [][Len(downloadChan') > Len(downloadChan) => ~downloadClosed]_vars
    /\ [](\A w \in DOMAIN downloadWorkers :
            downloadWorkers[w] = Left =>
                /\ downloadClosed
                /\ downloadChan = <<>>
                /\ received = enqueued)

\* C36 witness: the download of an account has returned after the object
\* tasks of its containers were queued by the workers and received.
C36_Witness ==
    /\ main = "Returned"
    /\ producer.mode = "account"
    /\ containerWG = 0
    /\ received >= 2
    /\ received = enqueued


\* The workers between dirExistsLock.Lock() and dirExistsLock.Unlock().
InDirSection ==
    {w \in DOMAIN downloadWorkers :
        downloadWorkers[w].pc \in {"check", "mkdir", "unlock"}}

\* C37: os.MkdirAll is called at most once for each destination directory,
\* and at most one worker at a time is between the lock and the unlock
\* around the dirExists check and the creation.
C37_DirCreatedOnce ==
    /\ \A d \in Dirs : mkdirs[d] <= 1
    /\ Cardinality(InDirSection) <= 1

\* C37 witness: a worker has created the directory of its object task and
\* not yet unlocked while another worker holding a task for the same
\* directory waits for the lock.
C37_Witness ==
    \E w, v \in DOMAIN downloadWorkers :
        /\ w # v
        /\ downloadWorkers[w].pc = "unlock"
        /\ downloadWorkers[v].pc = "lock"
        /\ downloadWorkers[v].dir = downloadWorkers[w].dir
        /\ mkdirs[downloadWorkers[w].dir] = 1
        /\ dirExistsLock = w


\* ==================================== benchDelete: the containers go last
\* benchDelete (cli.go:396-569) after its producer loop: wg.Wait(), then
\* one c.DeleteContainer per container, then the totals.

\* bench-delete with the -containers flag drawn from 0..MaxContainers.
InitDelete ==
    /\ bench = "benchDelete"
    /\ count \in 1..MaxCount
    /\ iterations = 1
    /\ concurrency \in 1..MaxConcurrency
    /\ continueOnError \in BOOLEAN
    /\ csv \in BOOLEAN
    /\ csvot \in BOOLEAN
    /\ size = 0
    /\ maxsize = 0
    /\ \E flag \in 0..MaxContainers : containers = NormContainers(flag)
    /\ ProvUnused
    /\ DownloadUnused
    /\ cleanup = NoCleanup
    /\ runElapsed = 0
    /\ margin = DeleteMargin
    /\ FixedStart

\* What the steps after the run leave alone.
cleanupRest == <<mixedVars, ratioVars, provVars, downloadVars, config,
                 fixedConfig, exited, csvlk, csvw, benchChan, closed,
                 workers, loopI, iteration, lastSoFar, calls, completed,
                 failures>>

\* The container deletes begun right after close(benchChan), with no
\* wg.Wait().
DeleteWaitedEarly ==
    /\ Alive
    /\ bench = "benchDelete"
    /\ main = "Wait"
    /\ main' = "DeleteContainers"
    /\ runElapsed' \in Durations
    /\ UNCHANGED <<cleanupRest, cleanup, csvotw>>

\* wg.Wait() returns; stop := time.Now(); elapsed := stop.Sub(start)
DeleteWaited ==
    /\ Alive
    /\ bench = "benchDelete"
    /\ main = "Wait"
    /\ BagToSet(workers) = {Gone}
    /\ main' = "DeleteContainers"
    /\ runElapsed' \in Durations
    /\ UNCHANGED <<cleanupRest, cleanup, csvotw>>

\* c.DeleteContainer(...) is called, for the one container or for
\* container x of the loop.
DeleteContainerCall ==
    /\ Alive
    /\ main = "DeleteContainers"
    /\ ~cleanup.call
    /\ cleanup.x < containers
    /\ cleanup' = [cleanup EXCEPT !.call = TRUE]
    /\ UNCHANGED <<cleanupRest, main, runElapsed, csvotw>>

\* c.DeleteContainer returns; a status that is not 2xx is printed to
\* os.Stderr and the loop goes on.
DeleteContainerReturn(ok) ==
    /\ Alive
    /\ main = "DeleteContainers"
    /\ cleanup.call
    /\ cleanup' = [x |-> cleanup.x + 1, call |-> FALSE]
    /\ UNCHANGED <<cleanupRest, main, runElapsed, csvotw>>

\* The totals are printed and the last -csvot row is written.
DeleteReport ==
    /\ Alive
    /\ main = "DeleteContainers"
    /\ ~cleanup.call
    /\ cleanup.x = containers
    /\ main' = "Reported"
    /\ csvotw' = IF csvot
                 THEN Append(csvotw, count - lastSoFar)
                 ELSE csvotw
    /\ UNCHANGED <<cleanupRest, cleanup, runElapsed>>

NextDelete ==
    \/ FixedTick
    \/ FixedSend
    \/ FixedClose
    \/ FixedRecv
    \/ FixedReturn
    \/ FixedLock
    \/ FixedWrite
    \/ FixedFatalf
    \/ DeleteWaited
    \/ DeleteContainerCall
    \/ \E ok \in BOOLEAN : DeleteContainerReturn(ok)
    \/ DeleteReport

SpecDelete == InitDelete /\ [][NextDelete]_vars

\* ====================================================== claims: benchDelete

\* A c.DeleteObject task is queued, held by a worker or still to be sent.
ObjectDeletesLeft ==
    \/ benchChan # <<>>
    \/ BagToSet(workers) # {Gone}
    \/ ~closed
    \/ FixedDispatched < count

\* C38: a c.DeleteContainer call starts, and is under way, only when the
\* run is drained: every object DELETE task has been sent, none is queued
\* and every worker has left its loop.
C38_ContainersAfterDrain ==
    /\ [][~cleanup.call /\ cleanup'.call => ~ObjectDeletesLeft]_vars
    /\ [](cleanup.call \/ cleanup.x > 0 => ~ObjectDeletesLeft)

\* C38 witness: the second of two containers is being deleted after a run
\* whose object DELETEs have all completed, one of them with a failure.
C38_Witness ==
    /\ containers = 2
    /\ cleanup = [x |-> 1, call |-> TRUE]
    /\ count > 1
    /\ completed = count
    /\ failures >= 1
====
